---------------------------- MODULE Spec2Model ----------------------------
(***************************************************************************)
(* A model of Fandomassenger (src/fandomassenger): the query layer of      *)
(* api.py, the jsonModel builder of util.py and the run of main().         *)
(*                                                                         *)
(* Python values are modelled as follows.                                  *)
(*   - A parsed JSON value is a tagged record: JObj(f) with f a function   *)
(*     from key strings to JSON values, JList(l), JStr(s), JNum(n), JNull. *)
(*   - The result of evaluating Python code is Ok(v) or Raise(e), e the    *)
(*     name of the exception class that leaves the code.                   *)
(*   - An HTTP exchange is a record [net, status, parsable, body]: whether *)
(*     the connection worked, the status class, whether the body parses as *)
(*     JSON and the parsed body.                                           *)
(***************************************************************************)
EXTENDS Integers, Sequences, FiniteSets, TLC

VARIABLES
    \* ---- the last call of a query-layer operation (api.py): [op, resp, out],
    \* the operation's name ("none" before any call), the HTTP exchanges the
    \* call consumed in order, and Ok(value) or Raise(exception)
    api,
    \* ---- one JsonModelHTMLParser (util.py)
    parser,        \* the object: [heap, paragraphs_stack, links_stack, content]
    parser_exc,    \* "none", or the exception a handler raised
    parser_events, \* the events fed so far, in order
    \* ---- one call of get_category_members (api.py), see CatIdle
    cat,
    \* ---- the last call of a helper of util.py: [op, args, out]
    util,
    \* ---- one run of main() (__main__.py)
    pc,            \* where the run is: "url", "signin", "groups", "ratelimit",
                   \* "menu", "category", "lookup", "message", "parse",
                   \* "dispatch", "complete", "returned", "crashed"
    uncaught,      \* the exception that ended the run and the step it left
    wiki,          \* the dict wiki
    is_logged_in,
    privileged,    \* a group lookup returned and has_rights held of it
    interval,
    users,         \* the names handed to the recipient lookup
    user_dicts,
    message_title,
    message_body,
    has_walls,
    params,
    index,         \* recipients of the batch done so far
    trace,         \* what main() did since the last prompt: its calls of
                   \* the query layer with the requests of the posts, its
                   \* log lines and its sleeps (get_category_members keeps
                   \* its own log in cat)
    probes         \* the number of calls of has_message_walls in the run

parserVars == <<parser, parser_exc, parser_events>>

mainVars ==
    <<pc, uncaught, wiki, is_logged_in, privileged, interval, users,
      user_dicts, message_title, message_body, has_walls, params, index,
      trace, probes>>

vars == <<api, parser, parser_exc, parser_events, cat, util, mainVars>>

\* What an action of one part of the model leaves alone.
notApi == <<parserVars, cat, util, mainVars>>
notParser == <<api, cat, util, mainVars>>
notCat == <<api, parserVars, util, mainVars>>
notMain == <<api, parserVars, util>>
notUtil == <<api, parserVars, cat, mainVars>>

-----------------------------------------------------------------------------
(* Python evaluation results *)

Ok(v) == [exc |-> "none", val |-> v]
Raise(e) == [exc |-> e]
IsOk(r) == r.exc = "none"

(* JSON values *)

JObj(f) == [t |-> "obj", f |-> f]
JList(l) == [t |-> "list", l |-> l]
JStr(s) == [t |-> "str", s |-> s]
JNum(n) == [t |-> "num", n |-> n]
JNull == [t |-> "null"]
NoKeys == [k \in {} |-> JNull]
EmptyObj == JObj(NoKeys)

\* d[k] on the value of result r: KeyError when a dict lacks k, TypeError when
\* the value is no dict (a list, string, number or None indexed by a string).
Subscript(r, k) ==
    IF ~IsOk(r) THEN r
    ELSE IF r.val.t = "obj"
         THEN IF k \in DOMAIN r.val.f THEN Ok(r.val.f[k]) ELSE Raise("KeyError")
         ELSE Raise("TypeError")

\* d[p1][p2]...[pn]
RECURSIVE Path(_, _)
Path(r, p) == IF p = <<>> THEN r ELSE Path(Subscript(r, Head(p)), Tail(p))

\* k in v: key membership for a dict, element membership for a list,
\* TypeError for a number or None.
Contains(k, v) ==
    CASE v.t = "obj" -> Ok(k \in DOMAIN v.f)
      [] v.t = "list" -> Ok(\E i \in 1..Len(v.l) : v.l[i] = JStr(k))
      [] OTHER -> Raise("TypeError")

-----------------------------------------------------------------------------
(* The transport block shared by every operation:                          *)
(*     request = session.get/post(...); request.raise_for_status()         *)
(*     data = request.json()                                               *)
(* except (requests.exceptions.HTTPError, json.decoder.JSONDecodeError):   *)
(*     raise QueryException()                                              *)
(* A connection failure raises requests.exceptions.ConnectionError, which  *)
(* is no HTTPError and leaves the block as it is. raise_for_status raises  *)
(* HTTPError for a 4xx or 5xx status only.                                 *)

Transport(resp) ==
    IF resp.net # "ok" THEN Raise("ConnectionError")
    ELSE IF resp.status \in {"4xx", "5xx"} THEN Raise("QueryException")
    ELSE IF ~resp.parsable THEN Raise("QueryException")
    ELSE Ok(resp.body)

\* except KeyError: raise InputException()
KeyErrorToInput(r) == IF r.exc = "KeyError" THEN Raise("InputException") ELSE r

\* if "errors" in data: raise InputException()   (then: rest)
ErrorsCheck(data, rest) ==
    LET e == Contains("errors", data)
    IN  IF ~IsOk(e) THEN e
        ELSE IF e.val THEN Raise("InputException")
        ELSE rest

-----------------------------------------------------------------------------
(* api.py: the operations. Each takes the HTTP exchange(s) its requests    *)
(* meet, in the order the code issues them, and gives Ok(value) or         *)
(* Raise(exception).                                                       *)

get_csrf_token(resp) ==
    LET data == Transport(resp)
    IN  IF ~IsOk(data) THEN data
        ELSE LET token == KeyErrorToInput(
                              Path(data, <<"query", "tokens", "csrftoken">>))
             IN  IF ~IsOk(token) THEN token
                 ELSE ErrorsCheck(data.val, token)

get_login_token(resp) ==
    LET data == Transport(resp)
    IN  IF ~IsOk(data) THEN data
        ELSE LET token == KeyErrorToInput(
                              Path(data, <<"query", "tokens", "logintoken">>))
             IN  IF ~IsOk(token) THEN token
                 ELSE ErrorsCheck(data.val, token)

RECURSIVE Gcd(_, _)
Gcd(a, b) == IF b = 0 THEN a ELSE Gcd(b, a % b)

\* seconds / hits as Python computes it: a float, kept here as the fraction
\* in lowest terms; TypeError for a non-number, ZeroDivisionError for hits 0.
TrueDivide(a, b) ==
    IF a.t # "num" \/ b.t # "num" THEN Raise("TypeError")
    ELSE IF b.n = 0 THEN Raise("ZeroDivisionError")
    ELSE LET g == Gcd(a.n, b.n)
         IN  Ok([num |-> IF g = 0 THEN 0 ELSE a.n \div g,
                 den |-> IF g = 0 THEN 1 ELSE b.n \div g])

get_rate_limit_interval(resp) ==
    LET data == Transport(resp)
        limits == Path(data, <<"query", "userinfo", "ratelimits", "edit", "user">>)
        seconds == Subscript(limits, "seconds")
        hits == Subscript(limits, "hits")
        quotient == IF ~IsOk(seconds) THEN seconds
                    ELSE IF ~IsOk(hits) THEN hits
                    ELSE TrueDivide(seconds.val, hits.val)
    IN  IF ~IsOk(data) THEN data
        ELSE ErrorsCheck(data.val, KeyErrorToInput(quotient))

\* len(v)
LenOf(v) ==
    CASE v.t = "list" -> Ok(Len(v.l))
      [] v.t = "obj" -> Ok(Cardinality(DOMAIN v.f))
      [] OTHER -> Raise("TypeError")

\* The loop as it would be did it leave out the entries marked missing only.
RECURSIVE unless_missing(_)
unless_missing(l) ==
    IF l = <<>> THEN Ok(<<>>)
    ELSE LET user == Head(l)
             missing == Contains("missing", user)
             rest == unless_missing(Tail(l))
         IN  IF ~IsOk(missing) THEN missing
             ELSE IF ~IsOk(rest) THEN rest
             ELSE IF ~missing.val THEN Ok(<<user>> \o rest.val)
             ELSE rest

\* for user in users: if "userid" in user and "missing" not in user:
\*     user_objects.append(user)
RECURSIVE valid_users(_)
valid_users(l) ==
    IF l = <<>> THEN Ok(<<>>)
    ELSE LET user == Head(l)
             has_id == Contains("userid", user)
             missing == Contains("missing", user)
             rest == valid_users(Tail(l))
         IN  IF ~IsOk(has_id) THEN has_id
             ELSE IF ~IsOk(rest) THEN rest
             ELSE IF has_id.val /\ ~missing.val THEN Ok(<<user>> \o rest.val)
             ELSE rest

\* usernames is a str or a list at both call sites of main(), so the two
\* isinstance branches of lines 401-407 never raise; the request parameters
\* do not decide the outcome. users is a list in every modelled body that has
\* one, or a value len() rejects.
get_user_data(resp) ==
    LET data == Transport(resp)
        listed == KeyErrorToInput(Path(data, <<"query", "users">>))
        errors == Contains("errors", data.val)
        n == LenOf(listed.val)
        user_objects == valid_users(listed.val.l)
    IN  IF ~IsOk(data) THEN data
        ELSE IF ~IsOk(listed) THEN listed
        ELSE IF ~IsOk(errors) THEN errors
        ELSE IF errors.val THEN Raise("InputException")
        ELSE IF ~IsOk(n) THEN n
        ELSE IF n.val = 0 THEN Raise("InputException")
        ELSE IF listed.val.t # "list" THEN Raise("TypeError")
        ELSE IF ~IsOk(user_objects) THEN user_objects
        ELSE IF user_objects.val = <<>> THEN Raise("InputException")
        ELSE user_objects

has_message_walls(resp) ==
    LET data == Transport(resp)
        has_user_data == Contains("userData", data.val)
        user_data == Subscript(data, "userData")
        has_url == IF ~IsOk(user_data) THEN user_data
                   ELSE Contains("messageWallUrl", user_data.val)
    IN  IF ~IsOk(data) THEN data
        ELSE ErrorsCheck(data.val,
                 IF ~has_user_data.val THEN Ok(FALSE)
                 ELSE KeyErrorToInput(has_url))

\* The token is fetched while the request's data dict is built, inside the
\* try block: what get_login_token raises is neither HTTPError nor
\* JSONDecodeError and leaves login as it is, before any POST.
login(username, token_resp, resp) ==
    LET lgtoken == get_login_token(token_resp)
        data == Transport(resp)
        result == Path(data, <<"login", "result">>)
        lgusername == Path(data, <<"login", "lgusername">>)
        status == IF ~IsOk(result) THEN result
                  ELSE IF ~IsOk(lgusername) THEN lgusername
                  ELSE Ok(result.val = JStr("Success")
                          /\ lgusername.val = JStr(username))
    IN  IF ~IsOk(lgtoken) THEN lgtoken
        ELSE IF ~IsOk(data) THEN data
        ELSE ErrorsCheck(data.val, KeyErrorToInput(status))

parse_wikitext(resp) ==
    LET data == Transport(resp)
    IN  IF ~IsOk(data) THEN data
        ELSE ErrorsCheck(data.val,
                 KeyErrorToInput(Path(data, <<"parse", "text", "*">>)))

\* int(v): the number itself, the number a decimal string spells, ValueError
\* for any other string, TypeError for None, a dict or a list.
IntOf(v) ==
    CASE v.t = "num" -> Ok(v.n)
      [] v.t = "str" ->
            (CASE v.s = "1" -> Ok(1)
               [] v.s = "2" -> Ok(2)
               [] v.s = "3" -> Ok(3)
               [] OTHER -> Raise("ValueError"))
      [] OTHER -> Raise("TypeError")

\* except (KeyError, ValueError): raise InputException()
KeyValueErrorToInput(r) ==
    IF r.exc \in {"KeyError", "ValueError"} THEN Raise("InputException") ELSE r

\* userid is the JSON value of the recipient's "userid" key. There is no
\* "errors" check in this operation.
post_message_wall_thread(userid, token_resp, resp) ==
    LET token == get_csrf_token(token_resp)
        data == Transport(resp)
        has_id == Contains("id", data.val)
        created_by == IntOf(Path(data, <<"createdBy", "id">>).val)
        success == IF ~IsOk(has_id) THEN has_id
                   ELSE IF ~has_id.val THEN Ok(FALSE)
                   ELSE IF ~IsOk(Path(data, <<"createdBy", "id">>))
                        THEN Path(data, <<"createdBy", "id">>)
                   ELSE IF ~IsOk(created_by) THEN created_by
                   ELSE Ok(JNum(created_by.val) = userid)
    IN  IF ~IsOk(token) THEN token
        ELSE IF ~IsOk(data) THEN data
        ELSE KeyValueErrorToInput(success)

post_user_talk_message(token_resp, resp) ==
    LET token == get_csrf_token(token_resp)
        data == Transport(resp)
        result == Path(data, <<"edit", "result">>)
        success == IF ~IsOk(result) THEN result
                   ELSE Ok(result.val = JStr("Success"))
    IN  IF ~IsOk(token) THEN token
        ELSE IF ~IsOk(data) THEN data
        ELSE ErrorsCheck(data.val, KeyErrorToInput(success))

-----------------------------------------------------------------------------
(* util.py: JsonModelHTMLParser. Its nodes are Python dicts that several   *)
(* containers hold at once (a link node sits on links_stack and in its     *)
(* paragraph's content list), so they live in a heap: heap[i] is node i,   *)
(* a function from its keys to their values, and the stacks and content    *)
(* lists hold node numbers.                                                *)

\* __init__
NewParser ==
    [heap |-> <<>>, paragraphs_stack |-> <<>>, links_stack |-> <<>>,
     content |-> <<>>]

Returned(p) == [p |-> p, exc |-> "none"]
Raised(p, e) == [p |-> p, exc |-> e]

Last(q) == q[Len(q)]
Pop(q) == SubSeq(q, 1, Len(q) - 1)

\* The loop as it would be did it keep every attribute.
RECURSIVE every_attr_kept(_, _)
every_attr_kept(attrs, acc) ==
    IF attrs = <<>> THEN acc
    ELSE every_attr_kept(Tail(attrs), (Head(attrs)[1] :> Head(attrs)[2]) @@ acc)

\* for attr in attrs: keep href and title, a later one replacing an earlier
RECURSIVE link_attrs(_, _)
link_attrs(attrs, acc) ==
    IF attrs = <<>> THEN acc
    ELSE LET attr == Head(attrs)
         IN  link_attrs(Tail(attrs),
                        IF attr[1] \in {"href", "title"}
                        THEN (attr[1] :> attr[2]) @@ acc
                        ELSE acc)

NoAttrs == [k \in {} |-> ""]

\* The handler as it would be did it put a new paragraph into the document
\* at once.
paragraph_kept_at_open(p, tag, attrs) ==
    LET n == Len(p.heap) + 1
    IN  IF tag = "p"
        THEN Returned([p EXCEPT
                 !.heap = Append(@, [type |-> "paragraph", content |-> <<>>]),
                 !.paragraphs_stack = Append(@, n),
                 !.content = Append(@, n)])
        ELSE IF tag = "a"
        THEN LET new_link == [type |-> "text",
                              marks |-> <<[type |-> "link",
                                           attrs |-> link_attrs(attrs, NoAttrs)]>>]
                 pushed == [p EXCEPT !.heap = Append(@, new_link),
                                     !.links_stack = Append(@, n)]
             IN  IF p.paragraphs_stack = <<>>
                 THEN Raised(pushed, "IndexError")
                 ELSE Returned([pushed EXCEPT
                          !.heap[Last(p.paragraphs_stack)].content = Append(@, n)])
        ELSE Returned(p)

handle_starttag(p, tag, attrs) ==
    LET n == Len(p.heap) + 1
    IN  IF tag = "p"
        THEN Returned([p EXCEPT
                 !.heap = Append(@, [type |-> "paragraph", content |-> <<>>]),
                 !.paragraphs_stack = Append(@, n)])
        ELSE IF tag = "a"
        THEN LET new_link == [type |-> "text",
                              marks |-> <<[type |-> "link",
                                           attrs |-> link_attrs(attrs, NoAttrs)]>>]
                 pushed == [p EXCEPT !.heap = Append(@, new_link),
                                     !.links_stack = Append(@, n)]
             IN  IF p.paragraphs_stack = <<>>
                 THEN Raised(pushed, "IndexError")
                 ELSE Returned([pushed EXCEPT
                          !.heap[Last(p.paragraphs_stack)].content = Append(@, n)])
        ELSE Returned(p)

\* The handler as it would be did every close tag but </a> close a paragraph.
unknown_close_pops_paragraph(p, tag) ==
    IF tag # "a"
    THEN IF p.paragraphs_stack = <<>>
         THEN Raised(p, "IndexError")
         ELSE Returned([p EXCEPT
                  !.content = Append(@, Last(p.paragraphs_stack)),
                  !.paragraphs_stack = Pop(@)])
    ELSE IF p.links_stack = <<>>
    THEN Raised(p, "IndexError")
    ELSE Returned([p EXCEPT !.links_stack = Pop(@)])

handle_endtag(p, tag) ==
    IF tag = "p"
    THEN IF p.paragraphs_stack = <<>>
         THEN Raised(p, "IndexError")
         ELSE Returned([p EXCEPT
                  !.content = Append(@, Last(p.paragraphs_stack)),
                  !.paragraphs_stack = Pop(@)])
    ELSE IF tag = "a"
    THEN IF p.links_stack = <<>>
         THEN Raised(p, "IndexError")
         ELSE Returned([p EXCEPT !.links_stack = Pop(@)])
    ELSE Returned(p)

\* The handler as it would be did it add the text to the open link's text.
data_appended_to_label(p, data) ==
    IF p.links_stack # <<>>
    THEN Returned([p EXCEPT
             !.heap[Last(p.links_stack)] =
                 ("text" :> (IF "text" \in DOMAIN @ THEN @.text \o data ELSE data))
                     @@ @])
    ELSE IF p.paragraphs_stack # <<>>
    THEN Returned([p EXCEPT
             !.heap = Append(@, [type |-> "text", text |-> data]),
             !.heap[Last(p.paragraphs_stack)].content = Append(@, Len(p.heap) + 1)])
    ELSE Returned(p)

\* The handler as it would be did it not look at links_stack.
data_outside_links_only(p, data) ==
    IF p.paragraphs_stack # <<>>
    THEN Returned([p EXCEPT
             !.heap = Append(@, [type |-> "text", text |-> data]),
             !.heap[Last(p.paragraphs_stack)].content = Append(@, Len(p.heap) + 1)])
    ELSE Returned(p)

handle_data(p, data) ==
    IF p.links_stack # <<>>
    THEN Returned([p EXCEPT
             !.heap[Last(p.links_stack)] = ("text" :> data) @@ @])
    ELSE IF p.paragraphs_stack # <<>>
    THEN Returned([p EXCEPT
             !.heap = Append(@, [type |-> "text", text |-> data]),
             !.heap[Last(p.paragraphs_stack)].content = Append(@, Len(p.heap) + 1)])
    ELSE Returned(p)

\* One event as html.parser.HTMLParser hands it to the handlers.
StartTag(tag, attrs) == [ev |-> "starttag", tag |-> tag, attrs |-> attrs]
EndTag(tag) == [ev |-> "endtag", tag |-> tag]
Data(data) == [ev |-> "data", data |-> data]

handle(p, e) ==
    CASE e.ev = "starttag" -> handle_starttag(p, e.tag, e.attrs)
      [] e.ev = "endtag" -> handle_endtag(p, e.tag)
      [] e.ev = "data" -> handle_data(p, e.data)

\* feed: the events in order; an exception of a handler ends it.
RECURSIVE feed(_, _)
feed(p, events) ==
    IF events = <<>> THEN Returned(p)
    ELSE LET r == handle(p, Head(events))
         IN  IF r.exc # "none" THEN r ELSE feed(r.p, Tail(events))

\* The dict json_model with the node numbers replaced by the nodes they name.
node_value(p, i) ==
    IF "content" \in DOMAIN p.heap[i]
    THEN [type |-> p.heap[i].type,
          content |-> [k \in 1..Len(p.heap[i].content) |->
                           p.heap[p.heap[i].content[k]]]]
    ELSE p.heap[i]

json_model(p) ==
    [type |-> "doc",
     content |-> [k \in 1..Len(p.content) |-> node_value(p, p.content[k])]]

-----------------------------------------------------------------------------
(* Python strings whose characters the code looks at (category names and   *)
(* page titles) are sequences of one-character strings.                    *)

\* The characters of the model's strings, in code point order.
Alphabet ==
    << " ", "+", "-", ".", "0", "1", "2", "3", "4", "5", "6", "7", "8", "9",
       ":", "A", "B", "C", "P", "U", "a", "b", "c", "e", "g", "o", "p", "r",
       "s", "t", "u", "y" >>

Ord(c) == CHOOSE i \in 1..Len(Alphabet) : Alphabet[i] = c

DigitChars == {"0", "1", "2", "3", "4", "5", "6", "7", "8", "9"}

\* str.lower()
lower_char(c) ==
    CASE c = "A" -> "a" [] c = "B" -> "b" [] c = "C" -> "c"
      [] c = "P" -> "p" [] c = "U" -> "u" [] OTHER -> c

lower(str) == [i \in 1..Len(str) |-> lower_char(str[i])]

\* str.isdigit()
isdigit(str) == str # <<>> /\ \A i \in 1..Len(str) : str[i] \in DigitChars

\* float(c) of a string of digits
RECURSIVE float(_)
float(str) ==
    IF str = <<>> THEN 0
    ELSE 10 * float(SubSeq(str, 1, Len(str) - 1))
         + (Ord(str[Len(str)]) - Ord("0"))

\* a < b for two strings: by code points, a proper prefix first
RECURSIVE str_less(_, _)
str_less(a, b) ==
    IF b = <<>> THEN FALSE
    ELSE IF a = <<>> THEN TRUE
    ELSE IF Head(a) # Head(b) THEN Ord(Head(a)) < Ord(Head(b))
    ELSE str_less(Tail(a), Tail(b))

\* regex = r"[+-]?([0-9]+(?:[.][0-9]*)?|[.][0-9]+)"

\* Where the longest run of digits from position j ends (the position after).
DigitsEnd(str, j) ==
    CHOOSE k \in j..(Len(str) + 1) :
        /\ \A x \in j..(k - 1) : str[x] \in DigitChars
        /\ k = Len(str) + 1 \/ str[k] \notin DigitChars

\* Where a match of the group that starts at j ends (the position after), 0
\* when the group does not match at j.
GroupEnd(str, j) ==
    IF j <= Len(str) /\ str[j] \in DigitChars
    THEN LET k == DigitsEnd(str, j)
         IN  IF k <= Len(str) /\ str[k] = "." THEN DigitsEnd(str, k + 1) ELSE k
    ELSE IF j + 1 <= Len(str) /\ str[j] = "." /\ str[j + 1] \in DigitChars
    THEN DigitsEnd(str, j + 1)
    ELSE 0

\* The match of the regex that starts at i: where its group starts and where
\* it ends; from = 0 when there is none. The sign is matched, not captured.
MatchAt(str, i) ==
    IF i <= Len(str) /\ str[i] \in {"+", "-"} /\ GroupEnd(str, i + 1) # 0
    THEN [from |-> i + 1, to |-> GroupEnd(str, i + 1)]
    ELSE IF GroupEnd(str, i) # 0
    THEN [from |-> i, to |-> GroupEnd(str, i)]
    ELSE [from |-> 0, to |-> 0]

\* re.split(regex, str) from position i on, the current text piece having
\* started at start: the text pieces alternate with the captured groups.
RECURSIVE re_split(_, _, _)
re_split(str, start, i) ==
    IF i > Len(str) THEN << SubSeq(str, start, Len(str)) >>
    ELSE LET m == MatchAt(str, i)
         IN  IF m.from = 0 THEN re_split(str, start, i + 1)
             ELSE << SubSeq(str, start, i - 1), SubSeq(str, m.from, m.to - 1) >>
                  \o re_split(str, m.to, m.to)

\* key=lambda m: [float(c) if c.isdigit() else c.lower()
\*                for c in re.split(regex, m)]
sort_key(m) ==
    LET parts == re_split(m, 1, 1)
    IN  [i \in 1..Len(parts) |->
            IF isdigit(parts[i]) THEN [k |-> "float", n |-> float(parts[i])]
            ELSE [k |-> "str", s |-> lower(parts[i])]]

\* x == y for two elements of a key
key_elem_eq(x, y) ==
    /\ x.k = y.k
    /\ IF x.k = "float" THEN x.n = y.n ELSE x.s = y.s

\* y < x for two lists, as list.sort asks it: "lt", "ge", or "TypeError" when
\* the first elements that differ are a float and a str.
list_less(y, x) ==
    LET n == IF Len(x) < Len(y) THEN Len(x) ELSE Len(y)
        differ == { i \in 1..n : ~key_elem_eq(y[i], x[i]) }
        i == CHOOSE d \in differ : \A e \in differ : d <= e
    IN  IF differ = {} THEN (IF Len(y) < Len(x) THEN "lt" ELSE "ge")
        ELSE IF y[i].k # x[i].k THEN "TypeError"
        ELSE IF y[i].k = "float" THEN (IF y[i].n < x[i].n THEN "lt" ELSE "ge")
        ELSE (IF str_less(y[i].s, x[i].s) THEN "lt" ELSE "ge")

\* The orderings of S in which no title's key is less than its
\* predecessor's: a title no other is less than comes first, the rest follow
\* in such an ordering of their own.
RECURSIVE Orderings(_)
Orderings(S) ==
    IF S = {} THEN { <<>> }
    ELSE UNION { { << m >> \o t : t \in Orderings(S \ {m}) } :
                    m \in { x \in S : \A y \in S :
                                list_less(sort_key(y), sort_key(x)) # "lt" } }

\* members = list(set(...)); members.sort(key=...): the set comes in any
\* order and the sort is stable, so titles of equal keys come out in any
\* order. Two keys that cannot be compared differ first in a place where one
\* holds a float and the other a str; no third key lies between them, so the
\* sort compares the two and ends in TypeError.
human_sort(S) ==
    IF \E x \in S, y \in S : list_less(sort_key(x), sort_key(y)) = "TypeError"
    THEN { Raise("TypeError") }
    ELSE { Ok(q) : q \in Orderings(S) }

-----------------------------------------------------------------------------
(* util.py: the helpers main() calls. *)

\* "|".join(l)
RECURSIVE join(_)
join(l) ==
    IF l = <<>> THEN <<>>
    ELSE IF Len(l) = 1 THEN l[1]
    ELSE l[1] \o <<"|">> \o join(Tail(l))

\* The pattern (?=(p1|p2|...)) matches somewhere in str: at some position
\* some alternative is spelled out (the empty alternation matches anywhere).
Found(alternatives, str) ==
    \/ alternatives = <<>>
    \/ \E k \in 1..Len(alternatives), i \in 1..(Len(str) + 1) :
           /\ i + Len(alternatives[k]) - 1 <= Len(str)
           /\ SubSeq(str, i, i + Len(alternatives[k]) - 1) = alternatives[k]

\* bool(re.findall(rf'(?=({"|".join(permissible)}))', "|".join(groups)))
has_rights(groups, permissible) == Found(permissible, join(groups))

\* e.strip(" ")
RECURSIVE strip(_)
strip(str) ==
    IF str = <<>> THEN str
    ELSE IF Head(str) = " " THEN strip(Tail(str))
    ELSE IF str[Len(str)] = " " THEN strip(SubSeq(str, 1, Len(str) - 1))
    ELSE str

\* string.split(delimiter), from the piece that starts at start on
RECURSIVE split(_, _, _, _)
split(str, delimiter, start, i) ==
    IF i > Len(str) THEN << SubSeq(str, start, Len(str)) >>
    ELSE IF str[i] = delimiter
    THEN << SubSeq(str, start, i - 1) >> \o split(str, delimiter, i + 1, i + 1)
    ELSE split(str, delimiter, start, i + 1)

\* list(filter(None, l))
RECURSIVE filter_none(_)
filter_none(l) ==
    IF l = <<>> THEN <<>>
    ELSE IF Head(l) = <<>> THEN filter_none(Tail(l))
    ELSE << Head(l) >> \o filter_none(Tail(l))

split_delimited_string_into_list(string, delimiter) ==
    LET pieces == split(string, delimiter, 1, 1)
    IN  filter_none([i \in 1..Len(pieces) |-> strip(pieces[i])])

(* A URL is a sequence of pieces: the characters the parsing looks for      *)
(* (":", "/", "?", "#", ";", ".", " "), each a piece of its own, and the   *)
(* runs of letters and digits between them, each one piece ("eizen").      *)

UrlMarks == {":", "/", "?", "#", ";", ".", " "}

\* str.find(c, start) for the first c of a set, 0 when there is none
Find(str, marks, start) ==
    IF \E i \in start..Len(str) : str[i] \in marks
    THEN CHOOSE i \in start..Len(str) :
             /\ str[i] \in marks
             /\ \A j \in start..(i - 1) : str[j] \notin marks
    ELSE 0

\* str.rfind(c), 0 when there is none
RFind(str, c) ==
    IF \E i \in 1..Len(str) : str[i] = c
    THEN CHOOSE i \in 1..Len(str) :
             str[i] = c /\ \A j \in (i + 1)..Len(str) : str[j] # c
    ELSE 0

From(str, i) == SubSeq(str, i, Len(str))
Upto(str, i) == SubSeq(str, 1, i)

\* The schemes of urllib.parse.uses_params that the pieces can spell.
uses_params == { <<>>, <<"http">>, <<"https">> }

\* urllib.parse._splitparams
splitparams(url) ==
    LET slash == RFind(url, "/")
        i == Find(url, {";"}, IF slash = 0 THEN 1 ELSE slash)
    IN  IF i = 0 THEN [url |-> url, params |-> <<>>]
        ELSE [url |-> Upto(url, i - 1), params |-> From(url, i + 1)]

\* urllib.parse.urlparse: urlsplit, then the params of the path. A scheme is
\* what stands before the first ":" when it begins with a letter and holds
\* letters, digits and "+-." only; the pieces are in lower case already.
urlparse(url) ==
    LET i == Find(url, {":"}, 1)
        has_scheme == /\ i > 1
                      /\ url[1] \notin UrlMarks \cup {"80"}
                      /\ \A k \in 1..(i - 1) : url[k] \notin UrlMarks \ {"."}
        scheme == IF has_scheme THEN Upto(url, i - 1) ELSE <<>>
        url1 == IF has_scheme THEN From(url, i + 1) ELSE url
        has_netloc == Len(url1) >= 2 /\ url1[1] = "/" /\ url1[2] = "/"
        delim == Find(url1, {"/", "?", "#"}, 3)
        netloc == IF ~has_netloc THEN <<>>
                  ELSE IF delim = 0 THEN From(url1, 3)
                  ELSE SubSeq(url1, 3, delim - 1)
        url2 == IF ~has_netloc THEN url1
                ELSE IF delim = 0 THEN <<>>
                ELSE From(url1, delim)
        hash == Find(url2, {"#"}, 1)
        fragment == IF hash = 0 THEN <<>> ELSE From(url2, hash + 1)
        url3 == IF hash = 0 THEN url2 ELSE Upto(url2, hash - 1)
        mark == Find(url3, {"?"}, 1)
        query == IF mark = 0 THEN <<>> ELSE From(url3, mark + 1)
        url4 == IF mark = 0 THEN url3 ELSE Upto(url3, mark - 1)
        split_params == scheme \in uses_params /\ Find(url4, {";"}, 1) # 0
    IN  [scheme |-> scheme, netloc |-> netloc,
         path |-> IF split_params THEN splitparams(url4).url ELSE url4,
         params |-> IF split_params THEN splitparams(url4).params ELSE <<>>,
         query |-> query, fragment |-> fragment]

\* ".".join(l)
RECURSIVE join_dots(_)
join_dots(l) ==
    IF l = <<>> THEN <<>>
    ELSE IF Len(l) = 1 THEN l[1]
    ELSE l[1] \o <<".">> \o join_dots(Tail(l))

\* The test as it would be did it not look at the host's domain.
any_host_accepted(url) ==
    LET parsed == urlparse(strip(url))
    IN  ~(parsed.scheme = <<>> \/ parsed.netloc = <<>> \/ parsed.path # <<>>
          \/ parsed.params # <<>> \/ parsed.query # <<>>
          \/ parsed.fragment # <<>>)

\* The test as it would be did it compare the whole host.
whole_host_compared(url) ==
    LET parsed == urlparse(strip(url))
    IN  IF parsed.scheme = <<>> \/ parsed.netloc = <<>> \/ parsed.path # <<>>
           \/ parsed.params # <<>> \/ parsed.query # <<>>
           \/ parsed.fragment # <<>>
        THEN FALSE
        ELSE parsed.netloc \in { <<"fandom", ".", "com">>, <<"wikia", ".", "org">> }

is_fandom_wiki_base_url(url) ==
    LET parsed == urlparse(strip(url))
        \* domain = parsed.netloc.split("."); domain.pop(0)
        domain == Tail(split(parsed.netloc, ".", 1, 1))
    IN  IF parsed.scheme = <<>> \/ parsed.netloc = <<>> \/ parsed.path # <<>>
           \/ parsed.params # <<>> \/ parsed.query # <<>>
           \/ parsed.fragment # <<>>
        THEN FALSE
        ELSE join_dots(domain) \in { <<"fandom", ".", "com">>,
                                     <<"wikia", ".", "org">> }

-----------------------------------------------------------------------------
(* api.py: category expansion. get_category_members runs over several      *)
(* requests; its state between two of them is the record                   *)
(*   st          "idle", "page" (a page request is out), "done"            *)
(*   input       the categories argument it was called with                *)
(*   interval    the pacing interval it was called with                    *)
(*   categories  the prefixed category names                               *)
(*   counter     _get_category_members_process: categories done so far     *)
(*   members     _get_category_members_process: its master list            *)
(*   lists       the list objects of the running _get_category_members     *)
(*               chain, in the order they were created                     *)
(*   cur         which of them the innermost frame appends to              *)
(*   depth       the number of frames of the chain                         *)
(*   config      the innermost frame's config                              *)
(*   log         the requests, the pages read and the sleeps so far        *)
(*   resp        the HTTP exchange the last request met, <<>> before it    *)
(*   out         what get_category_members returned or raised              *)

NoCursor == JNull

CatIdle ==
    [st |-> "idle", input |-> JNull, interval |-> JNull,
     categories |-> <<>>, counter |-> 0,
     members |-> <<>>, lists |-> <<>>, cur |-> 0, depth |-> 0,
     config |-> [cmtitle |-> <<>>, cmcontinue |-> NoCursor],
     log |-> <<>>, resp |-> <<>>, out |-> Ok(<<>>)]

GetEvent(config) ==
    [e |-> "get", cmtitle |-> config.cmtitle, cmcontinue |-> config.cmcontinue]

SleepEvent(seconds) == [e |-> "sleep", interval |-> seconds]

PageEvent(titles) == [e |-> "page", titles |-> titles]

Prefix == <<"C", "a", "t", "e", "g", "o", "r", "y", ":">>

\* The lambda as it would be did it prefix every name.
always_prefixed(c) == Prefix \o c

\* (c, prefix + c)[c[:len(prefix)] != prefix]
prefixed(c) ==
    IF SubSeq(c, 1, IF Len(c) < Len(Prefix) THEN Len(c) ELSE Len(Prefix)) # Prefix
    THEN Prefix \o c ELSE c

\* get_category_members leaves: what it returned or raised.
CatReturn(c, out) == [c EXCEPT !.st = "done", !.out = out]

\* members = list(set(...)); if len(members): members.sort(key=...). A title
\* that is no string fails in set() or in re.split with TypeError.
CatFinish(c, members) ==
    LET S == { members[i] : i \in 1..Len(members) }
    IN  IF \E m \in S : m.t # "str" THEN { CatReturn(c, Raise("TypeError")) }
        ELSE { CatReturn(c, out) : out \in human_sort({ m.s : m \in S }) }

\* _get_category_members_process from its test of counter on: it returns the
\* master list when all categories are done, and otherwise calls
\* _get_category_members with a config of the category's name alone, which
\* makes a list of its own (members = members or []) and issues a request.
CatProcess(c) ==
    IF c.counter = Len(c.categories) THEN CatFinish(c, c.members)
    ELSE LET config == [cmtitle |-> c.categories[c.counter + 1],
                        cmcontinue |-> NoCursor]
         IN  { [c EXCEPT !.st = "page", !.lists = << <<>> >>, !.cur = 1,
                         !.depth = 1, !.config = config,
                         !.log = Append(@, GetEvent(config))] }

\* get_category_members(categories, interval, ...) up to its first request.
CatCall(categories, seconds) ==
    LET c == [CatIdle EXCEPT !.input = categories, !.interval = seconds]
    IN  IF categories.t \notin {"str", "list"}
        THEN { CatReturn(c, Raise("InputException")) }
        ELSE LET l == IF categories.t = "str" THEN <<categories>> ELSE categories.l
             IN  IF \E i \in 1..Len(l) : l[i].t # "str"
                 THEN { CatReturn(c, Raise("TypeError")) }
                 ELSE CatProcess([c EXCEPT !.categories =
                                     [i \in 1..Len(l) |-> prefixed(l[i].s)]])

\* for member in data["query"]["categorymembers"]: members.append(
\* member["title"]): the titles, or the exception the loop ends in.
RECURSIVE titles_of(_)
titles_of(l) ==
    IF l = <<>> THEN Ok(<<>>)
    ELSE LET title == Subscript(Ok(Head(l)), "title")
             rest == titles_of(Tail(l))
         IN  IF ~IsOk(title) THEN title
             ELSE IF ~IsOk(rest) THEN rest
             ELSE Ok(<<title.val>> \o rest.val)

\* What the for loop runs over: the elements of a list, nothing for an empty
\* dict or string; the keys of a dict and the characters of a string are
\* strings, which ["title"] fails on as anything else fails to iterate.
page_titles(cm) ==
    IF ~IsOk(cm) THEN cm
    ELSE CASE cm.val.t = "list" -> titles_of(cm.val.l)
           [] cm.val.t = "obj" /\ DOMAIN cm.val.f = {} -> Ok(<<>>)
           [] cm.val.t = "str" /\ cm.val.s = <<>> -> Ok(<<>>)
           [] OTHER -> Raise("TypeError")

\* The call as it would be did it not sleep between two pages.
no_sleep(c) == c

\* if "query-continue" in data: time.sleep(interval)
continuation_sleep(c) == [c EXCEPT !.log = Append(@, SleepEvent(c.interval))]

\* _get_category_members from the response to its request on, and whatever
\* follows up to the next request or to get_category_members' return.
CatPage(call, resp) ==
    LET c == [call EXCEPT !.resp = resp]
        data == Transport(resp)
        errors == Contains("errors", data.val)
        titles == KeyErrorToInput(page_titles(Path(data, <<"query", "categorymembers">>)))
        lists == [c.lists EXCEPT ![c.cur] = @ \o titles.val]
        cursor == KeyErrorToInput(
                      Path(data, <<"query-continue", "categorymembers", "cmcontinue">>))
        read == [c EXCEPT !.lists = lists, !.log = Append(@, PageEvent(titles.val))]
        slept == continuation_sleep(read)
        config == [c.config EXCEPT !.cmcontinue = cursor.val]
        \* members = members or []
        fresh == lists[c.cur] = <<>>
    IN  IF ~IsOk(data) THEN { CatReturn(c, data) }
        ELSE IF ~IsOk(errors) THEN { CatReturn(c, errors) }
        ELSE IF errors.val THEN { CatReturn(c, Raise("InputException")) }
        ELSE IF ~IsOk(titles) THEN { CatReturn(c, titles) }
        ELSE IF "query-continue" \in DOMAIN data.val.f
        THEN IF ~IsOk(cursor) THEN { CatReturn(slept, cursor) }
             ELSE { [slept EXCEPT
                        !.lists = IF fresh THEN Append(@, <<>>) ELSE @,
                        !.cur = IF fresh THEN Len(lists) + 1 ELSE c.cur,
                        !.depth = c.depth + 1,
                        !.config = config,
                        !.log = Append(@, GetEvent(config))] }
        \* every frame returns; the outermost returns the list it made
        ELSE LET pages == lists[1]
             IN  CatProcess([read EXCEPT
                     !.counter = c.counter + 1,
                     !.members = IF Len(pages) # 0 THEN c.members \o pages
                                 ELSE c.members])

-----------------------------------------------------------------------------
(* The server: the HTTP exchanges an operation can meet. *)

\* Longest user list a users response carries.
MaxUsers == 2

Exchange(status, body) ==
    [net |-> "ok", status |-> status, parsable |-> TRUE, body |-> body]

\* A refused connection, an error status, a body that is no JSON.
FailedExchanges ==
    { [net |-> "refused", status |-> "none", parsable |-> FALSE, body |-> JNull],
      [net |-> "ok", status |-> "4xx", parsable |-> TRUE, body |-> EmptyObj],
      [net |-> "ok", status |-> "5xx", parsable |-> FALSE, body |-> JNull],
      [net |-> "ok", status |-> "2xx", parsable |-> FALSE, body |-> JNull] }

Exchanges(bodies) ==
    FailedExchanges \cup { Exchange(st, b) : st \in {"2xx", "3xx"}, b \in bodies }

\* {p1: {p2: ... leaf}}
RECURSIVE Nest(_, _)
Nest(p, leaf) ==
    IF p = <<>> THEN leaf ELSE JObj(Head(p) :> Nest(Tail(p), leaf))

\* The success shape with each leaf, and the shape cut at every depth: by
\* an object that lacks the next key, and by null in its place.
Shapes(p, leaves) ==
    { Nest(p, l) : l \in leaves }
    \cup { Nest(SubSeq(p, 1, i), x) : i \in 0..(Len(p) - 1), x \in {EmptyObj, JNull} }

\* Each body as it is, and with the top-level "errors" key added.
WithErrors(bodies) ==
    bodies \cup { JObj(b.f @@ ("errors" :> JList(<<>>))) :
                     b \in { x \in bodies : x.t = "obj" } }

\* The token values the server hands out.
Tokens == { "t1", "t2" }

TokenBodies(kind) ==
    WithErrors(Shapes(<<"query", "tokens", kind>>, { JStr(t) : t \in Tokens }))

Limits ==
    { JObj(("seconds" :> JNum(60)) @@ ("hits" :> JNum(40))),
      JObj(("seconds" :> JNum(60)) @@ ("hits" :> JNum(80))),
      JObj(("seconds" :> JNum(60)) @@ ("hits" :> JNum(0))),
      JObj(("seconds" :> JStr("60")) @@ ("hits" :> JNum(40))),
      JObj("seconds" :> JNum(60)),
      JObj("hits" :> JNum(40)) }

RateLimitBodies ==
    WithErrors(Shapes(<<"query", "userinfo", "ratelimits", "edit", "user">>, Limits))

User(name, userid) == JObj(("name" :> JStr(name)) @@ ("userid" :> JNum(userid)))
MissingUser(name) == JObj(("name" :> JStr(name)) @@ ("missing" :> JStr("")))
WithGroups(user, groups) == JObj(user.f @@ ("groups" :> JList(groups)))

SeqsUpTo(S, n) == UNION { [1..k -> S] : k \in 0..n }

ServerUsers == { User("A", 1), User("B", 2), MissingUser("C") }

\* Entries for a name that is no user name, and for an account marked
\* missing though it has an id.
OddUsers ==
    { JObj(("name" :> JStr("D")) @@ ("invalid" :> JStr(""))),
      JObj(User("E", 3).f @@ ("missing" :> JStr(""))) }

UsersBodies ==
    WithErrors(Shapes(<<"query", "users">>,
                      { JList(l) : l \in SeqsUpTo(ServerUsers \cup OddUsers, MaxUsers) }))

WallProbeBodies ==
    WithErrors({ EmptyObj, JNull,
                 JObj("userData" :> EmptyObj),
                 JObj("userData" :> JNull),
                 JObj("userData" :> JObj("messageWallUrl" :> JStr("url"))) })

LoginBodies(username) ==
    WithErrors(Shapes(<<"login">>,
        { JObj(("result" :> JStr(r)) @@ ("lgusername" :> JStr(u))) :
              r \in {"Success", "Failed"}, u \in {username, "other"} }
        \cup { JObj("result" :> JStr("Success")) }))

HtmlDocs == { "<p>Hi</p>", "<a href=\"x\">t</a>" }

ParseBodies ==
    WithErrors(Shapes(<<"parse", "text", "*">>, { JStr(h) : h \in HtmlDocs }))

WallPostBodies(userid) ==
    WithErrors(
        { JNull, EmptyObj, JObj("id" :> JStr("t1")),
          JObj("createdBy" :> JObj("id" :> userid)) }
        \cup { JObj(("id" :> JStr("t1")) @@ ("createdBy" :> c)) :
                  c \in { EmptyObj, JNull, JObj("id" :> userid),
                          JObj("id" :> JNum(3)), JObj("id" :> JStr("1")),
                          JObj("id" :> JStr("x")), JObj("id" :> JNull) } })

TalkPostBodies ==
    WithErrors(Shapes(<<"edit", "result">>, {JStr("Success"), JStr("Failure")}))

-----------------------------------------------------------------------------
(* SpecApi: single calls of the operations, each meeting any exchange. *)

ApiIdle == [op |-> "none", resp |-> <<>>, out |-> Ok(JNull)]

ApiInit == api = ApiIdle

\* The record of one call.
Called(name, resp, out) == [op |-> name, resp |-> resp, out |-> out]

Call_get_login_token ==
    /\ UNCHANGED notApi
    /\ \E r \in Exchanges(TokenBodies("logintoken")) :
           api' = Called("get_login_token", <<r>>, get_login_token(r))

Call_get_csrf_token ==
    /\ UNCHANGED notApi
    /\ \E r \in Exchanges(TokenBodies("csrftoken")) :
           api' = Called("get_csrf_token", <<r>>, get_csrf_token(r))

Call_get_rate_limit_interval ==
    /\ UNCHANGED notApi
    /\ \E r \in Exchanges(RateLimitBodies) :
           api' = Called("get_rate_limit_interval", <<r>>,
                         get_rate_limit_interval(r))

Call_get_user_data ==
    /\ UNCHANGED notApi
    /\ \E r \in Exchanges(UsersBodies) :
           api' = Called("get_user_data", <<r>>, get_user_data(r))

Call_has_message_walls ==
    /\ UNCHANGED notApi
    /\ \E r \in Exchanges(WallProbeBodies) :
           api' = Called("has_message_walls", <<r>>, has_message_walls(r))

Call_parse_wikitext ==
    /\ UNCHANGED notApi
    /\ \E r \in Exchanges(ParseBodies) :
           api' = Called("parse_wikitext", <<r>>, parse_wikitext(r))

\* login, and the two posts below, fetch a token and then issue their own
\* request, which they do only when the token fetch returned.
Call_login ==
    /\ UNCHANGED notApi
    /\ \E tr \in Exchanges(TokenBodies("logintoken")) :
           IF IsOk(get_login_token(tr))
           THEN \E r \in Exchanges(LoginBodies("Bot")) :
                    api' = Called("login", <<tr, r>>, login("Bot", tr, r))
           ELSE api' = Called("login", <<tr>>, get_login_token(tr))

Call_post_message_wall_thread ==
    /\ UNCHANGED notApi
    /\ \E userid \in {JNum(1), JNum(2)}, tr \in Exchanges(TokenBodies("csrftoken")) :
           IF IsOk(get_csrf_token(tr))
           THEN \E r \in Exchanges(WallPostBodies(userid)) :
                    api' = Called("post_message_wall_thread", <<tr, r>>,
                                  post_message_wall_thread(userid, tr, r))
           ELSE api' = Called("post_message_wall_thread", <<tr>>,
                              get_csrf_token(tr))

Call_post_user_talk_message ==
    /\ UNCHANGED notApi
    /\ \E tr \in Exchanges(TokenBodies("csrftoken")) :
           IF IsOk(get_csrf_token(tr))
           THEN \E r \in Exchanges(TalkPostBodies) :
                    api' = Called("post_user_talk_message", <<tr, r>>,
                                  post_user_talk_message(tr, r))
           ELSE api' = Called("post_user_talk_message", <<tr>>,
                              get_csrf_token(tr))

ApiNext ==
    \/ Call_post_message_wall_thread
    \/ Call_post_user_talk_message
    \/ Call_login
    \/ Call_get_login_token
    \/ Call_get_csrf_token
    \/ Call_get_rate_limit_interval
    \/ Call_get_user_data
    \/ Call_has_message_walls
    \/ Call_parse_wikitext

-----------------------------------------------------------------------------
(* SpecParser: one parser fed any sequence of events. *)

\* Longest event sequence fed to the parser.
MaxEvents == 5

Tags == {"p", "a", "b"}

AttrLists ==
    { <<>>, << <<"href", "/wiki/X">>, <<"title", "X">>, <<"class", "new">> >> }

ParserInit ==
    /\ parser = NewParser
    /\ parser_exc = "none"
    /\ parser_events = <<>>

\* feed goes on while no handler has raised.
CanFeed == parser_exc = "none" /\ Len(parser_events) < MaxEvents

StartTags ==
    { StartTag("a", attrs) : attrs \in AttrLists }
    \cup { StartTag(tag, <<>>) : tag \in Tags }

\* The parser meets an event: the handler runs, and an exception it raises
\* leaves feed.
Feed_starttag ==
    /\ CanFeed
    /\ \E e \in StartTags :
           /\ parser' = handle_starttag(parser, e.tag, e.attrs).p
           /\ parser_exc' = handle_starttag(parser, e.tag, e.attrs).exc
           /\ parser_events' = Append(parser_events, e)
    /\ UNCHANGED notParser

Feed_endtag ==
    /\ CanFeed
    /\ \E tag \in Tags :
           /\ parser' = handle_endtag(parser, tag).p
           /\ parser_exc' = handle_endtag(parser, tag).exc
           /\ parser_events' = Append(parser_events, EndTag(tag))
    /\ UNCHANGED notParser

Feed_data ==
    /\ CanFeed
    /\ \E data \in {"x", "y"} :
           /\ parser' = handle_data(parser, data).p
           /\ parser_exc' = handle_data(parser, data).exc
           /\ parser_events' = Append(parser_events, Data(data))
    /\ UNCHANGED notParser

\* The link attributes MediaWiki writes.
LinkTo(page) == << <<"href", "/wiki/" \o page>>, <<"title", page>> >>

\* Whole documents: the paragraph of the unit test (text, link, text, link,
\* text), two paragraphs, and a paragraph that is never closed.
Documents ==
    { << StartTag("p", <<>>), Data("Test "),
         StartTag("a", LinkTo("Message Wall:Eizen")), Data("link here"),
         EndTag("a"), Data(" text "),
         StartTag("a", LinkTo("User:Eizen")), Data("another link"),
         EndTag("a"), Data("."), EndTag("p") >>,
      << StartTag("p", <<>>), Data("One"), EndTag("p"),
         StartTag("p", <<>>), StartTag("b", <<>>), Data("Two"), EndTag("b"),
         EndTag("p") >>,
      << StartTag("p", <<>>), Data("One"), EndTag("p"),
         StartTag("p", <<>>), Data("Two") >> }

\* parser.feed(html) on a fresh parser, html a whole document.
Feed_document ==
    /\ parser_events = <<>>
    /\ parser_exc = "none"
    /\ \E events \in Documents :
           /\ parser' = feed(parser, events).p
           /\ parser_exc' = feed(parser, events).exc
           /\ parser_events' = events
    /\ UNCHANGED notParser

ParserNext ==
    \/ Feed_document
    \/ Feed_starttag
    \/ Feed_endtag
    \/ Feed_data

-----------------------------------------------------------------------------
(* SpecCat: one call of get_category_members against any server. *)

\* Most requests the server answers with a continuation cursor in one call.
MaxContinues == 1

Titles == { <<"a">>, <<"B">> }

Cursors == { "c1", "c2" }

CategoryNames == { <<"U">>, Prefix \o <<"U">>, <<"B">> }

Names(l) == JList([i \in 1..Len(l) |-> JStr(l[i])])

\* The argument of get_category_members: a list of names, one name, or
\* something that is neither.
CategoryInputs ==
    { Names(<<>>), Names(<< <<"U">>, <<"B">> >>), Names(<< <<"B">>, <<"U">> >>),
      Names(<< <<"U">>, Prefix \o <<"U">> >>), JNull }
    \cup { Names(<<n>>) : n \in CategoryNames }
    \cup { JStr(n) : n \in CategoryNames }

Intervals == { [num |-> 3, den |-> 4] }

Member(title) == JObj("title" :> JStr(title))

\* The member lists of a page: no member, one, two, the same one twice, and
\* an entry that lacks its title.
PageMemberLists ==
    { <<>>, << EmptyObj >>, << Member(<<"a">>), Member(<<"a">>) >> }
    \cup { << Member(t) >> : t \in Titles }
    \cup { << Member(<<"a">>), Member(<<"B">>) >> }

\* Member lists whose titles hold numbers: "P10", "P2" and "p1", which the
\* sort orders by number, and "1.5" with "2".
NumberedMemberLists ==
    { << Member(<<"P", "1", "0">>), Member(<<"P", "2">>), Member(<<"p", "1">>) >>,
      << Member(<<"1", ".", "5">>), Member(<<"2">>) >> }

\* What a page carries under "query-continue", when it carries the key.
Continuations(more) ==
    { EmptyObj }
    \cup IF more
         THEN { Nest(<<"categorymembers", "cmcontinue">>, JStr(x)) : x \in Cursors }
         ELSE {}

CategoryBodies(more) ==
    WithErrors(
        Shapes(<<"query", "categorymembers">>,
               { JList(l) : l \in PageMemberLists \cup NumberedMemberLists })
        \cup { JObj(Nest(<<"query", "categorymembers">>, JList(l)).f
                    @@ ("query-continue" :> x)) :
                  l \in PageMemberLists,
                  x \in Continuations(more) })

\* The continuation requests of the call so far.
Continues(c) ==
    Cardinality({ i \in 1..Len(c.log) :
                     c.log[i].e = "get" /\ c.log[i].cmcontinue # NoCursor })

CatInit == cat = CatIdle

Call_get_category_members ==
    /\ cat.st = "idle"
    /\ UNCHANGED notCat
    /\ \E categories \in CategoryInputs, seconds \in Intervals :
           cat' \in CatCall(categories, seconds)

CategoryPage ==
    /\ cat.st = "page"
    /\ UNCHANGED notCat
    /\ \E resp \in Exchanges(CategoryBodies(Continues(cat) < MaxContinues)) :
           cat' \in CatPage(cat, resp)

CatNext ==
    \/ Call_get_category_members
    \/ CategoryPage

-----------------------------------------------------------------------------
(* SpecUtil: single calls of the helpers of util.py, on any arguments. *)

sysop == <<"s", "y", "s", "o", "p">>
rollback == <<"r", "o", "l", "l", "b", "a", "c", "k">>
threadmoderator ==
    <<"t", "h", "r", "e", "a", "d", "m", "o", "d", "e", "r", "a", "t", "o", "r">>

\* required_usergroups = ["threadmoderator", "sysop"]
required_usergroups == << threadmoderator, sysop >>

\* The longest list of groups a call is given.
MaxGroups == 2

\* Group names: the three above, one that holds a permissible name within
\* it, and the two halves of a permissible name.
GroupNames ==
    { sysop, rollback, threadmoderator, sysop \o <<"s">>,
      <<"s", "y", "s">>, <<"o", "p">> }

PermissibleInputs == { required_usergroups, << sysop >>, << rollback >> }

UtilIdle == [op |-> "none", args |-> <<>>, out |-> FALSE]

UtilInit == util = UtilIdle

Call_has_rights ==
    /\ UNCHANGED notUtil
    /\ \E groups \in SeqsUpTo(GroupNames, MaxGroups),
          permissible \in PermissibleInputs :
           util' = [op |-> "has_rights", args |-> <<groups, permissible>>,
                    out |-> has_rights(groups, permissible)]

\* The URLs tried: what stands before the host, the host, and what follows.
UrlHeads ==
    { <<>>, <<"/", "/">>, <<"http", ":">>, <<"http", ":", "/">>,
      <<"http", ":", "/", "/">>, <<"https", ":", "/", "/">> }

UrlHosts ==
    { <<>>,
      <<"eizen", ".", "fandom", ".", "com">>,
      <<"eizen", ".", "wikia", ".", "org">>,
      <<"eizen", ".", "wikia", ".", "com">>,
      <<"eizen", ".", "fandom", ".", "org">>,
      <<"wiki", ".", "eizen", ".", "fandom", ".", "com">>,
      <<"google", ".", "com">>,
      <<"fandom", ".", "com">>,
      <<"wikia", ".", "org">>,
      <<"malformed", " ", "input">> }

UrlTails ==
    { <<>>, <<"/">>, <<"/", "wiki">>, <<"?">>, <<"?", "wiki">>, <<"#">>,
      <<"#", "wiki">>, <<";", "wiki">>, <<"/", ";", "wiki">>, <<":", "80">>,
      <<" ">> }

Urls ==
    { lead \o head \o host \o tail :
          lead \in { <<>>, <<" ">> }, head \in UrlHeads, host \in UrlHosts,
          tail \in UrlTails }

Call_is_fandom_wiki_base_url ==
    /\ UNCHANGED notUtil
    /\ \E url \in Urls :
           util' = [op |-> "is_fandom_wiki_base_url", args |-> <<url>>,
                    out |-> is_fandom_wiki_base_url(url)]

UtilNext ==
    \/ Call_has_rights
    \/ Call_is_fandom_wiki_base_url

-----------------------------------------------------------------------------
(* __main__.py: main(). What the run meets: the user's input at the        *)
(* prompts and the server's exchanges.                                     *)

UrlInputs ==
    { <<"https", ":", "/", "/", "eizen", ".", "fandom", ".", "com">>,
      <<"https", ":", "/", "/", "eizen", ".", "fandom", ".", "com", "/">>,
      <<"https", ":", "/", "/", "eizen", ".", "wikia", ".", "com">>,
      <<"eizen", ".", "fandom", ".", "com">> }

Usernames == { "Bot" }

BotId == 9

\* The groups the server may list for the account; the last is a group whose
\* name holds a permissible name within it.
GroupLists ==
    { <<>>, <<sysop>>, <<rollback>>, <<rollback, threadmoderator>>,
      << sysop \o <<"s">> >> }

\* The users list the group lookup is answered with: the account with its
\* groups, without the groups key, and marked missing.
GroupLookupBodies(username) ==
    WithErrors(Shapes(<<"query", "users">>,
        { JList(<< WithGroups(User(username, BotId),
                              [i \in 1..Len(g) |-> JStr(g[i])]) >>) :
              g \in GroupLists }
        \cup { JList(<< User(username, BotId) >>),
               JList(<< MissingUser(username) >>) }))

\* interval = 1.5
DefaultInterval == [num |-> 3, den |-> 2]

\* What the user types at the entries prompt.
EntryLines ==
    { <<"U">>, <<"U", ",", " ", "B">>, <<"U", ",", "U">>, <<" ", ",">> }

MessageTitles == { "Title" }

MessageBodies == { "Hello" }

(* In the menu loop the server answers with one exchange of each kind an   *)
(* operation tells apart: a refused connection, an error status, and a     *)
(* parsed body that is the success shape, lacks it, is null, or carries    *)
(* the error indicator.                                                    *)

ErrorsBody == JObj("errors" :> JList(<<>>))

Answers(bodies) ==
    { [net |-> "refused", status |-> "none", parsable |-> FALSE, body |-> JNull],
      [net |-> "ok", status |-> "5xx", parsable |-> FALSE, body |-> JNull] }
    \cup { Exchange("2xx", b) : b \in bodies \cup { EmptyObj, JNull, ErrorsBody } }

CsrfTokenAnswers ==
    Answers({ Nest(<<"query", "tokens", "csrftoken">>, JStr(t)) : t \in Tokens })

CategoryAnswers(more) ==
    Answers({ Nest(<<"query", "categorymembers">>, JList(l)) : l \in PageMemberLists }
            \cup { JObj(Nest(<<"query", "categorymembers">>, JList(l)).f
                        @@ ("query-continue" :> x)) :
                      l \in PageMemberLists, x \in Continuations(more) })

UsersAnswers ==
    Answers({ Nest(<<"query", "users">>, JList(l)) :
                 l \in SeqsUpTo(ServerUsers, MaxUsers) })

WallProbeAnswers ==
    Answers({ JObj("userData" :> EmptyObj),
              JObj("userData" :> JObj("messageWallUrl" :> JStr("url"))) })

ParseAnswers ==
    Answers({ Nest(<<"parse", "text", "*">>, JStr(h)) : h \in HtmlDocs })

\* A thread made by the recipient, by another account, one whose maker is
\* not told, and one made while the error indicator is set.
WallPostAnswers(userid) ==
    Answers({ JObj(("id" :> JStr("t1")) @@ ("createdBy" :> JObj("id" :> userid))),
              JObj(("id" :> JStr("t1")) @@ ("createdBy" :> JObj("id" :> JNum(3)))),
              JObj("id" :> JStr("t1")),
              JObj(("id" :> JStr("t1")) @@ ("createdBy" :> JObj("id" :> userid))
                   @@ ("errors" :> JList(<<>>))) })

TalkPostAnswers ==
    Answers({ Nest(<<"edit", "result">>, JStr(x)) : x \in {"Success", "Failure"} })

\* HTMLParser's events for the documents the server's parse answers carry.
html_events(html) ==
    CASE html = "<p>Hi</p>" ->
             << StartTag("p", <<>>), Data("Hi"), EndTag("p") >>
      [] html = "<a href=\"x\">t</a>" ->
             << StartTag("a", << <<"href", "x">> >>), Data("t"), EndTag("a") >>

\* json.dumps(value): the JSON text that spells value
dumps(value) == [json |-> value]

(* The events of the trace. *)

\* get_csrf_token was called and returned or raised
TokenEvent(out) == [e |-> "token", out |-> out]
\* the POST request of a post operation, with its data
PostEvent(func, data) == [e |-> "post", func |-> func, data |-> data]
CallEvent(func, args) == [e |-> "call", func |-> func, args |-> args]
ReturnEvent(out) == [e |-> "return", out |-> out]
LogEvent(msg, name) == [e |-> "log", msg |-> msg, name |-> name]

NoName == ""

NotUncaught == [at |-> "none", exc |-> "none"]

Caught == { "QueryException", "InputException" }

MainInit ==
    /\ pc = "url"
    /\ uncaught = NotUncaught
    /\ wiki = <<>>
    /\ is_logged_in = FALSE
    /\ privileged = FALSE
    /\ interval = JNull
    /\ users = <<>>
    /\ user_dicts = <<>>
    /\ message_title = ""
    /\ message_body = ""
    /\ has_walls = FALSE
    /\ params = <<>>
    /\ index = 0
    /\ trace = <<>>
    /\ probes = 0

\* The locals of a menu iteration, which its end leaves behind.
IterationLocals ==
    <<users, user_dicts, message_title, message_body, has_walls, params, index>>

ClearIteration ==
    /\ users' = <<>>
    /\ user_dicts' = <<>>
    /\ message_title' = ""
    /\ message_body' = ""
    /\ has_walls' = FALSE
    /\ params' = <<>>
    /\ index' = 0

\* An exception nothing catches ends the run.
Crash(e) ==
    /\ uncaught' = [at |-> pc, exc |-> e]
    /\ pc' = "crashed"

\* lines 52-68: the prompt for the wiki's URL
EnterUrl ==
    /\ pc = "url"
    /\ \E input_url \in UrlInputs :
           IF ~is_fandom_wiki_base_url(input_url)
           THEN /\ trace' = << LogEvent("errorWikiLocation", NoName) >>
                /\ UNCHANGED <<pc, wiki>>
           ELSE /\ wiki' = [base_url |-> input_url,
                            api_php |-> <<input_url, "/api.php">>,
                            wikia_php |-> <<input_url, "/wikia.php">>]
                /\ pc' = "signin"
                /\ trace' = <<>>
    /\ UNCHANGED <<uncaught, is_logged_in, privileged, interval, IterationLocals>>
    /\ UNCHANGED <<cat, probes, notMain>>

\* The loop as it would be without the test of line 93.
goes_on_when_returned(out) ==
    IF ~IsOk(out) THEN (IF out.exc \in Caught THEN "signin" ELSE "crashed")
    ELSE "groups"

\* lines 77-95: where the login loop goes after the login call: out of
\* main() by an exception the except clauses do not name, back to the
\* credentials prompt when the call raised one they name or returned False,
\* and on to the group lookup when it returned True.
after_login(out) ==
    IF ~IsOk(out) THEN (IF out.exc \in Caught THEN "signin" ELSE "crashed")
    ELSE IF out.val THEN "groups"
    ELSE "signin"

\* lines 83-94: what is logged after the login call
login_log(out) ==
    IF out = Raise("QueryException")
    THEN << LogEvent("errorNonexistentWiki", NoName) >>
    ELSE IF out = Raise("InputException") \/ out = Ok(FALSE)
    THEN << LogEvent("errorLogin", NoName) >>
    ELSE <<>>

\* lines 71-95: the prompt for credentials and the login
SignIn ==
    /\ pc = "signin"
    /\ \E username \in Usernames, tr \in Exchanges(TokenBodies("logintoken")) :
         \E r \in IF IsOk(get_login_token(tr))
                  THEN Exchanges(LoginBodies(username)) ELSE {tr} :
           LET out == IF IsOk(get_login_token(tr)) THEN login(username, tr, r)
                      ELSE get_login_token(tr)
               events == << CallEvent("login", <<username, "password", wiki.api_php,
                                               "session">>),
                            ReturnEvent(out) >>
           IN  /\ users' = <<username>>
               /\ trace' = events \o login_log(out)
               /\ CASE after_login(out) = "crashed" ->
                           /\ Crash(out.exc)
                           /\ UNCHANGED is_logged_in
                    [] after_login(out) = "signin" ->
                           UNCHANGED <<pc, uncaught, is_logged_in>>
                    [] after_login(out) = "groups" ->
                           /\ is_logged_in' = out.val
                           /\ pc' = "groups"
                           /\ UNCHANGED uncaught
    /\ UNCHANGED <<wiki, privileged, interval, user_dicts, message_title,
                   message_body, has_walls, params, index>>
    /\ UNCHANGED <<cat, probes, notMain>>

\* my_usergroups = data[0]["groups"]: the names, or the exception
my_usergroups(data) ==
    LET groups == Subscript(Ok(data[1]), "groups")
    IN  IF ~IsOk(groups) THEN groups
        ELSE IF groups.val.t # "list" THEN Raise("TypeError")
        ELSE Ok([i \in 1..Len(groups.val.l) |-> groups.val.l[i].s])

\* lines 98-116: the group lookup that follows a login. After the except
\* clause's continue the loop's test finds is_logged_in set and the loop ends.
GroupLookup ==
    /\ pc = "groups"
    /\ \E r \in Exchanges(GroupLookupBodies(users[1])) :
           LET data == get_user_data(r)
               groups == IF IsOk(data) THEN my_usergroups(data.val) ELSE data
               events == << CallEvent("get_user_data",
                                      <<users[1], wiki.api_php, "session">>),
                            ReturnEvent(data) >>
           IN  IF groups.exc \in Caught \cup {"KeyError"}
               THEN /\ trace' = trace \o events \o << LogEvent("errorAPI", NoName) >>
                    /\ pc' = "ratelimit"
                    /\ UNCHANGED <<uncaught, privileged>>
               ELSE IF ~IsOk(groups)
               THEN /\ trace' = trace \o events
                    /\ Crash(groups.exc)
                    /\ UNCHANGED privileged
               ELSE IF ~has_rights(groups.val, required_usergroups)
               THEN /\ trace' = trace \o events
                                \o << LogEvent("errorInsufficientPermissions", NoName) >>
                    /\ pc' = "returned"
                    /\ UNCHANGED <<uncaught, privileged>>
               ELSE /\ trace' = trace \o events
                    /\ privileged' = TRUE
                    /\ pc' = "ratelimit"
                    /\ UNCHANGED uncaught
    /\ users' = <<>>
    /\ UNCHANGED <<wiki, is_logged_in, interval, user_dicts, message_title,
                   message_body, has_walls, params, index>>
    /\ UNCHANGED <<cat, probes, notMain>>

\* The run as it would be did it pace itself by the default in every case.
always_default(out) == DefaultInterval

\* lines 119-125: interval is what the lookup returned, or 1.5 when an
\* exception of the except clause left it
interval_after(out) == IF IsOk(out) THEN out.val ELSE DefaultInterval

\* lines 119-125: the pacing interval
RateLimit ==
    /\ pc = "ratelimit"
    /\ \E r \in Exchanges(RateLimitBodies) :
           LET out == get_rate_limit_interval(r)
               events == << CallEvent("get_rate_limit_interval",
                                      <<wiki.api_php, "session">>),
                            ReturnEvent(out) >>
           IN  IF IsOk(out)
               THEN /\ interval' = interval_after(out)
                    /\ pc' = "menu"
                    /\ trace' = events
                    /\ UNCHANGED uncaught
               ELSE IF out.exc \in Caught
               THEN /\ interval' = interval_after(out)
                    /\ pc' = "menu"
                    /\ trace' = events \o << LogEvent("errorEditInterval", NoName) >>
                    /\ UNCHANGED uncaught
               ELSE /\ Crash(out.exc)
                    /\ trace' = events
                    /\ UNCHANGED interval
    /\ UNCHANGED <<wiki, is_logged_in, privileged, IterationLocals>>
    /\ UNCHANGED <<cat, probes, notMain>>

\* Back to the top of the menu loop, the iteration's locals left behind.
ToMenu ==
    /\ pc' = "menu"
    /\ ClearIteration
    /\ UNCHANGED uncaught

\* lines 147-164: the exit option
Menu_exit ==
    /\ pc = "menu"
    /\ pc' = "returned"
    /\ trace' = << LogEvent("consoleExit", NoName) >>
    /\ ClearIteration
    /\ UNCHANGED <<uncaught, wiki, is_logged_in, privileged, interval>>
    /\ UNCHANGED <<cat, probes, notMain>>

\* Most messages composed in one run.
MaxBatches == 2

\* The run goes on to another recipient list.
MoreBatches == probes < MaxBatches

\* lines 147-192, option 2: the entries typed are the names to look up
Menu_loose ==
    /\ pc = "menu"
    /\ MoreBatches
    /\ \E line \in EntryLines :
           LET input_entries == split_delimited_string_into_list(line, ",")
           IN  /\ Len(input_entries) # 0
               /\ users' = input_entries
    /\ pc' = "lookup"
    /\ trace' = <<>>
    /\ UNCHANGED <<uncaught, wiki, is_logged_in, privileged, interval,
                   user_dicts, message_title, message_body, has_walls, params,
                   index>>
    /\ UNCHANGED <<cat, probes, notMain>>

\* lines 147-177, option 1: the entries typed are categories, and
\* get_category_members issues its first request
Menu_categories ==
    /\ pc = "menu"
    /\ MoreBatches
    /\ \E line \in EntryLines :
           LET input_entries == split_delimited_string_into_list(line, ",")
           IN  /\ Len(input_entries) # 0
               /\ cat' \in CatCall(Names(input_entries), interval)
               /\ trace' = << CallEvent("get_category_members",
                                         <<input_entries, interval,
                                           wiki.api_php, "session">>) >>
    /\ pc' = "category"
    /\ UNCHANGED <<uncaught, wiki, is_logged_in, privileged, interval,
                   IterationLocals>>
    /\ UNCHANGED <<probes, notMain>>

\* members = [] (line 133), assigned by line 176 only when the call returns
members_after(out) == IF IsOk(out) THEN out.val ELSE <<>>

\* The iteration as it would be without the test of line 186.
skips_empty_test(out) ==
    IF ~IsOk(out) /\ out.exc \notin Caught THEN "crashed" ELSE "lookup"

\* lines 175-188: where the iteration goes after the expansion: out of
\* main() by an exception the except clauses do not name, back to the menu
\* when there is no member, and on to the user lookup otherwise.
after_expansion(out) ==
    IF ~IsOk(out) /\ out.exc \notin Caught THEN "crashed"
    ELSE IF Len(members_after(out)) = 0 THEN "menu"
    ELSE "lookup"

\* lines 178-187: what is logged after the expansion
expansion_log(out) ==
    (IF out.exc = "QueryException" THEN << LogEvent("errorAPI", NoName) >>
     ELSE IF out.exc = "InputException"
     THEN << LogEvent("errorNoCategoryMembers", NoName) >>
     ELSE <<>>)
    \o (IF after_expansion(out) = "menu"
        THEN << LogEvent("errorNoCategoryMembers", NoName) >>
        ELSE <<>>)

\* lines 176-188: get_category_members meets the answer to a page request;
\* when it returns or raises, the iteration goes on with its members.
ExpandCategory ==
    /\ pc = "category"
    /\ \E resp \in CategoryAnswers(Continues(cat) < MaxContinues) :
         \E c \in CatPage(cat, resp) :
           IF c.st = "page"
           THEN /\ cat' = c
                /\ UNCHANGED <<pc, uncaught, users, trace>>
           ELSE /\ cat' = CatIdle
                /\ trace' = expansion_log(c.out)
                /\ CASE after_expansion(c.out) = "crashed" ->
                            /\ Crash(c.out.exc)
                            /\ UNCHANGED users
                     [] after_expansion(c.out) = "menu" ->
                            /\ pc' = "menu"
                            /\ UNCHANGED <<uncaught, users>>
                     [] after_expansion(c.out) = "lookup" ->
                            /\ users' = members_after(c.out)
                            /\ pc' = "lookup"
                            /\ UNCHANGED uncaught
    /\ UNCHANGED <<wiki, is_logged_in, privileged, interval, user_dicts,
                   message_title, message_body, has_walls, params, index>>
    /\ UNCHANGED <<probes, notMain>>

\* The iteration as it would be did no except clause follow the lookup.
lookup_uncaught(out) == IF IsOk(out) THEN "message" ELSE "crashed"

\* lines 190-204: where the iteration goes after the recipient lookup: on to
\* the message prompt when it returned, back to the menu when an except
\* clause names what it raised, and out of main() otherwise.
after_lookup(out) ==
    IF IsOk(out) THEN "message"
    ELSE IF out.exc \in Caught THEN "menu"
    ELSE "crashed"

\* lines 190-204: the recipient lookup. When it returns, the prompt for the
\* message follows.
LookupUsers ==
    /\ pc = "lookup"
    /\ \E r \in UsersAnswers :
           LET out == get_user_data(r)
               events == << CallEvent("get_user_data",
                                      <<users, wiki.api_php, "False", "session">>),
                            ReturnEvent(out) >>
           IN  CASE after_lookup(out) = "message" ->
                        /\ user_dicts' = out.val
                        /\ users' = <<>>
                        /\ pc' = "message"
                        /\ trace' = <<>>
                        /\ UNCHANGED <<uncaught, message_title, message_body,
                                       has_walls, params, index>>
                 [] after_lookup(out) = "menu" ->
                        /\ trace' = trace \o events \o
                            << LogEvent(IF out.exc = "QueryException"
                                        THEN "errorAPI"
                                        ELSE "errorNoValidUsernames", NoName),
                               SleepEvent(interval) >>
                        /\ ToMenu
                 [] after_lookup(out) = "crashed" ->
                        /\ trace' = trace \o events
                        /\ Crash(out.exc)
                        /\ UNCHANGED IterationLocals
    /\ UNCHANGED <<wiki, is_logged_in, privileged, interval>>
    /\ UNCHANGED <<cat, probes, notMain>>

\* lines 207-241: the message is typed and the wiki is probed for message
\* walls; without walls the post arguments are set. Nothing catches what
\* has_message_walls raises.
ComposeMessage ==
    /\ pc = "message"
    /\ \E title \in MessageTitles, body \in MessageBodies,
          r \in WallProbeAnswers :
           LET out == has_message_walls(r)
               events == << CallEvent("has_message_walls",
                                      <<wiki.wikia_php, "session">>),
                            ReturnEvent(out) >>
           IN  /\ message_title' = title
               /\ message_body' = body
               /\ trace' = events
               /\ probes' = probes + 1
               /\ IF ~IsOk(out)
                  THEN /\ Crash(out.exc)
                       /\ UNCHANGED <<has_walls, params>>
                  ELSE /\ has_walls' = out.val
                       /\ UNCHANGED uncaught
                       /\ IF out.val
                          THEN /\ pc' = "parse"
                               /\ UNCHANGED params
                          ELSE /\ pc' = "dispatch"
                               /\ params' = <<title, body, wiki.api_php, "session">>
    /\ UNCHANGED <<wiki, is_logged_in, privileged, interval, users, user_dicts,
                   index>>
    /\ UNCHANGED <<cat, notMain>>

\* The arguments as they would be did they carry the document of a parser
\* that was fed nothing.
document_left_empty(title, model) ==
    << title, dumps(json_model(NewParser)), wiki.wikia_php, wiki.api_php,
       "session" >>

\* lines 234-235: params = [message_title, json_model, wiki["wikia_php"],
\* wiki["api_php"], session]
wall_params(title, model) ==
    << title, model, wiki.wikia_php, wiki.api_php, "session" >>

\* lines 223-235: with walls, the body is parsed by the server, fed to a new
\* JsonModelHTMLParser and serialized. Nothing catches what these raise.
ParseMessage ==
    /\ pc = "parse"
    /\ \E r \in ParseAnswers :
           LET parsed_message_body == parse_wikitext(r)
               fed == feed(NewParser, html_events(parsed_message_body.val.s))
               events == << CallEvent("parse_wikitext",
                                      <<message_body, wiki.api_php, "session">>),
                            ReturnEvent(parsed_message_body) >>
           IN  /\ trace' = trace \o events
               /\ IF ~IsOk(parsed_message_body)
                  THEN /\ Crash(parsed_message_body.exc)
                       /\ UNCHANGED params
                  ELSE IF fed.exc # "none"
                  THEN /\ Crash(fed.exc)
                       /\ UNCHANGED params
                  ELSE /\ params' = wall_params(message_title,
                                                dumps(json_model(fed.p)))
                       /\ pc' = "dispatch"
                       /\ UNCHANGED uncaught
    /\ UNCHANGED <<wiki, is_logged_in, privileged, interval, users, user_dicts,
                   message_title, message_body, has_walls, index>>
    /\ UNCHANGED <<cat, probes, notMain>>

(* lines 243-266: one iteration of the dispatch loop *)

\* if index == 0: params.insert(index, first_param)
\* else: params[0] = first_param
set_first_param(ps, i, first_param) ==
    IF i = 0 THEN << first_param >> \o ps ELSE [ps EXCEPT ![1] = first_param]

\* The numbers of positional arguments the two post operations take.
Arity(func) ==
    IF func = "post_message_wall_thread" THEN {5, 6} ELSE {4, 5}

\* A post as it would be did it carry one token kept for all posts.
one_token_kept(fetched) == JStr("t1")

\* "token": get_csrf_token(api_php, session) in the data of a post
post_token(fetched) == fetched

\* api.py lines 634-645: the data of post_message_wall_thread's request
wall_thread_data(args, fetched) ==
    [title |-> args[2], wallOwnerId |-> args[1], token |-> post_token(fetched),
     jsonModel |-> args[3],
     attachments |-> "{\"contentImages\":[],\"openGraphs\":[],\"atMentions\":[]}"]

\* api.py lines 693-701: the data of post_user_talk_message's request
talk_message_data(args, fetched) ==
    [action |-> "edit", section |-> "new", format |-> "json",
     sectiontitle |-> args[2], token |-> post_token(fetched), text |-> args[3],
     title |-> args[1]]

\* The call func(*args), told by the answers tr to its token fetch and r to
\* its post: what it returns or raises, and the requests it makes. The post
\* is sent only when the token fetch returned.
post_call(func, args, tr, r) ==
    LET token == get_csrf_token(tr)
        out == IF func = "post_message_wall_thread"
               THEN post_message_wall_thread(args[1], tr, r)
               ELSE post_user_talk_message(tr, r)
        data == IF func = "post_message_wall_thread"
                THEN wall_thread_data(args, token.val)
                ELSE talk_message_data(args, token.val)
    IN  IF Len(args) \notin Arity(func)
        THEN [out |-> Raise("TypeError"), events |-> <<>>]
        ELSE IF ~IsOk(token)
        THEN [out |-> token, events |-> << TokenEvent(token) >>]
        ELSE [out |-> out,
              events |-> << TokenEvent(token), PostEvent(func, data) >>]

\* lines 254-262: the line logged for the recipient, none when the exception
\* is not one the except clause names
outcome_log(out, name) ==
    IF IsOk(out)
    THEN << LogEvent(IF out.val THEN "successMessage" ELSE "errorMessageStd", name) >>
    ELSE IF out.exc \in Caught THEN << LogEvent("errorMessageAPI", name) >>
    ELSE <<>>

\* The loop as it would be did it sleep at the end of the try block only.
sleep_after_return_only(out, seconds) ==
    IF IsOk(out) THEN << SleepEvent(seconds) >> ELSE <<>>

\* lines 265-266: finally: time.sleep(interval)
finally_sleep(out, seconds) == << SleepEvent(seconds) >>

\* The loop as it would be without its except clause.
continues_after_return_only(out) == IsOk(out)

\* The loop goes on to the next recipient unless an exception leaves it,
\* which those of the except clause of lines 259-262 do not.
loop_continues(out) == IsOk(out) \/ out.exc \in Caught

\* The post operation the batch uses: lines 233 and 240.
Func == IF has_walls THEN "post_message_wall_thread" ELSE "post_user_talk_message"

\* f'User talk:{name}'
UserTalk(name) == <<"User talk:", name>>

\* One recipient: the arguments are set, the post operation is called, the
\* outcome is logged and the loop sleeps.
PostToRecipient ==
    /\ pc = "dispatch"
    /\ \E tr \in CsrfTokenAnswers :
         \E r \in IF ~IsOk(get_csrf_token(tr)) THEN {tr}
                  ELSE IF has_walls
                  THEN WallPostAnswers(user_dicts[index + 1].f["userid"])
                  ELSE TalkPostAnswers :
           LET user_dict == user_dicts[index + 1]
               name == Subscript(Ok(user_dict), "name")
               userid == Subscript(Ok(user_dict), "userid")
               first_param == IF has_walls THEN userid.val ELSE UserTalk(name.val.s)
               args == set_first_param(params, index, first_param)
               call == post_call(Func, args, tr, r)
               out == IF ~IsOk(name) THEN name ELSE call.out
               attempt ==
                   IF ~IsOk(name) THEN <<>>
                   ELSE << CallEvent(Func, args) >> \o call.events
                        \o << ReturnEvent(out) >> \o outcome_log(out, name.val.s)
               events == attempt \o finally_sleep(out, interval)
           IN  IF ~loop_continues(out)
               THEN /\ trace' = trace \o events
                    /\ Crash(out.exc)
                    /\ UNCHANGED IterationLocals
               ELSE IF index + 1 < Len(user_dicts)
               THEN /\ trace' = trace \o events
                    /\ params' = args
                    /\ index' = index + 1
                    /\ UNCHANGED <<pc, uncaught, users, user_dicts,
                                   message_title, message_body, has_walls>>
               ELSE /\ trace' = trace \o events
                    /\ params' = args
                    /\ index' = index + 1
                    /\ pc' = "complete"
                    /\ UNCHANGED <<uncaught, users, user_dicts,
                                   message_title, message_body, has_walls>>
    /\ UNCHANGED <<wiki, is_logged_in, privileged, interval>>
    /\ UNCHANGED <<cat, probes, notMain>>

\* lines 268-269: the loop is over; the batch is reported, the run sleeps
\* once more and the menu comes back.
CompleteBatch ==
    /\ pc = "complete"
    /\ trace' = << LogEvent("successComplete", NoName), SleepEvent(interval) >>
    /\ ToMenu
    /\ UNCHANGED <<wiki, is_logged_in, privileged, interval>>
    /\ UNCHANGED <<cat, probes, notMain>>

MainNext ==
    \/ EnterUrl
    \/ SignIn
    \/ GroupLookup
    \/ RateLimit
    \/ Menu_exit
    \/ Menu_loose
    \/ Menu_categories
    \/ ExpandCategory
    \/ LookupUsers
    \/ ComposeMessage
    \/ ParseMessage
    \/ PostToRecipient
    \/ CompleteBatch

Init == ApiInit /\ ParserInit /\ CatInit /\ UtilInit /\ MainInit

SpecParser == Init /\ [][ParserNext]_vars

SpecApi == Init /\ [][ApiNext]_vars

SpecCat == Init /\ [][CatNext]_vars

SpecUtil == Init /\ [][UtilNext]_vars

Spec == Init /\ [][MainNext]_vars

\* main() is one thread: while get_category_members or the dispatch loop is
\* running, the run goes on as soon as the request it waits for is answered.
\* At the prompts it waits for the user, for however long.
SpecFair ==
    /\ Spec
    /\ WF_vars(ExpandCategory)
    /\ WF_vars(PostToRecipient)
    /\ WF_vars(CompleteBatch)

-----------------------------------------------------------------------------
(* The properties. *)

\* C5: the markup builder accepts every finite sequence of open-tag,
\* close-tag and text events, unbalanced ones included: no event raises an
\* error. (It does not hold: a link opened with no open paragraph, and a
\* paragraph or link closed with none open, raise IndexError.)
C5_NoEventRaises == parser_exc = "none"

\* A network error, a non-2xx status or an unparsable body.
TransportFailed(r) == r.net # "ok" \/ r.status # "2xx" \/ ~r.parsable

\* C9: every call of a query-layer operation ends by returning its value, by
\* QueryException or by InputException, and ends by QueryException whenever
\* the exchange that decided it was a network error, a non-2xx status or an
\* unparsable body. (It does not hold: a refused connection leaves the
\* operation as requests' ConnectionError.)
C9_ThreeWaysAndTransportIsQueryFailure ==
    api.op # "none" =>
        /\ api.out.exc \in {"none", "QueryException", "InputException"}
        /\ TransportFailed(Last(api.resp)) => api.out = Raise("QueryException")

\* The body parsed and carries the top-level "errors" key.
CarriesErrors(r) ==
    /\ IsOk(Transport(r))
    /\ r.body.t = "obj"
    /\ "errors" \in DOMAIN r.body.f

\* The operation's own request was issued: the one request of an operation
\* that issues one, the request after the token fetch of one that issues two.
OwnRequestIssued ==
    /\ api.op # "none"
    /\ Len(api.resp) = (IF api.op \in {"login", "post_message_wall_thread",
                                       "post_user_talk_message"} THEN 2 ELSE 1)

\* C10: for every operation, a call whose own request was answered by a
\* parsed body that carries the top-level error indicator raises
\* InputException, whatever other keys the body holds. (It does not hold:
\* post_message_wall_thread never looks at the indicator.)
C10_ErrorIndicatorRaisesInputFailure ==
    (OwnRequestIssued /\ CarriesErrors(Last(api.resp)))
        => api.out = Raise("InputException")

\* The titles on the pages a call has read.
TitlesRead(c) ==
    UNION { { c.log[i].titles[j].s : j \in 1..Len(c.log[i].titles) } :
               i \in { k \in 1..Len(c.log) : c.log[k].e = "page" } }

\* C4: a call of get_category_members for a single category that returns a
\* list returns the union of the titles of all the pages it read, so that no
\* page's titles are lost.
C4_SingleCategoryReturnsUnionOfPages ==
    (cat.st = "done" /\ IsOk(cat.out) /\ Len(cat.categories) = 1) =>
        { cat.out.val[i] : i \in 1..Len(cat.out.val) } = TitlesRead(cat)


-----------------------------------------------------------------------------
(* The dispatch loop, read off the trace. *)

PostFuncs == { "post_message_wall_thread", "post_user_talk_message" }

IsPostCall(ev) == ev.e = "call" /\ ev.func \in PostFuncs

\* Where in the trace the post operation was called, the loop slept, a token
\* was fetched and a post was sent.
CallsAt == { k \in 1..Len(trace) : IsPostCall(trace[k]) }
SleepsAt == { k \in 1..Len(trace) : trace[k].e = "sleep" }
PostsAt == { k \in 1..Len(trace) : trace[k].e = "post" }
TokensAt == { k \in 1..Len(trace) : trace[k].e = "token" }
ReturnsAt(out) == { k \in 1..Len(trace) : trace[k] = ReturnEvent(out) }

\* The calls of the post operation, in order.
PostCalls == SelectSeq(trace, IsPostCall)

\* The dispatch loop is running, or has just ended, without an exception
\* having left it.
InLoop == pc \in {"dispatch", "complete"}

\* C1: in a batch in which every attempt so far returned or raised
\* QueryException or InputException, the loop has slept exactly once per
\* recipient attempted, each attempt is followed by its sleep before the next
\* attempt begins, and when the loop ends that makes one sleep for each of
\* the N recipients, whatever the outcomes were.
C1_OneSleepPerAttempt ==
    InLoop =>
        /\ Cardinality(SleepsAt) = index
        /\ Cardinality(CallsAt) = index
        /\ pc = "complete" => index = Len(user_dicts)
        /\ \A c \in CallsAt :
               \E z \in SleepsAt :
                   /\ c < z
                   /\ \A d \in CallsAt : ~(c < d /\ d < z)
                   /\ \A y \in SleepsAt : ~(c < y /\ y < z)

\* C1 witness: a batch of two ended, the first attempt having raised and the
\* second having returned true.
C1_MixedBatchEnded ==
    /\ pc = "complete"
    /\ Len(user_dicts) = 2
    /\ \E a \in ReturnsAt(Raise("QueryException")), b \in ReturnsAt(Ok(TRUE)) :
           a < b

\* C2: a QueryException or InputException raised by a post never leaves the
\* dispatch loop, and the loop goes on: every recipient up to the current
\* position has had its attempt, and the loop ends only when all have.
C2_FailureDoesNotAbortBatch ==
    /\ (pc = "crashed" /\ uncaught.at = "dispatch") => uncaught.exc \notin Caught
    /\ InLoop =>
           /\ Cardinality(CallsAt) = index
           /\ (pc = "complete") = (index = Len(user_dicts))
           /\ \A k \in 1..Len(PostCalls) :
                  PostCalls[k].args[1] =
                      IF has_walls THEN user_dicts[k].f["userid"]
                      ELSE UserTalk(user_dicts[k].f["name"].s)

\* C2 witness: the first recipient's post raised InputException and the
\* second recipient was attempted after it.
C2_AttemptAfterFailure ==
    /\ InLoop
    /\ \E a \in ReturnsAt(Raise("InputException")), c \in CallsAt :
           /\ a < c
           /\ trace[c].args[1] # PostCalls[1].args[1]

\* C6: every post request is sent within a call of the post operation, right
\* after a token fetch made by that same call, and carries the token that
\* fetch returned; a token fetch that failed is followed by no post, the call
\* ends with it.
C6_FreshTokenPerPost ==
    /\ \A k \in PostsAt :
           /\ k > 2
           /\ trace[k - 1].e = "token"
           /\ IsOk(trace[k - 1].out)
           /\ trace[k].data.token = trace[k - 1].out.val
           /\ IsPostCall(trace[k - 2])
    /\ \A k \in TokensAt :
           /\ k > 1
           /\ IsPostCall(trace[k - 1])
           /\ k < Len(trace)
           /\ IF IsOk(trace[k].out) THEN trace[k + 1].e = "post"
              ELSE trace[k + 1] = ReturnEvent(trace[k].out)

\* C6 as stated: besides the above, no two posts carry the same token value.
C6_NoTokenValueReused ==
    /\ C6_FreshTokenPerPost
    /\ \A a \in PostsAt, b \in PostsAt :
           a # b => trace[a].data.token # trace[b].data.token

\* C6 witness: two posts of one batch carry different tokens.
C6_TwoPostsTwoTokens ==
    \E a \in PostsAt, b \in PostsAt :
        /\ a < b
        /\ trace[a].data.token # trace[b].data.token

\* The batch is over: the loop ran to its end, or an exception left it.
BatchOver == pc = "complete" \/ (pc = "crashed" /\ uncaught.at = "dispatch")

\* C7: when a batch is over the post operation has been called once per
\* recipient, in the order of the recipient list: the k-th call is addressed
\* to the k-th recipient, by userid with walls and by 'User talk:<name>'
\* without, and its other arguments are those of every other call: the
\* title, the body or the serialized document, and the endpoints.
C7_OneCallPerRecipientInOrder ==
    BatchOver =>
        /\ Len(PostCalls) = Len(user_dicts)
        /\ \A k \in 1..Len(PostCalls) :
               /\ PostCalls[k].func = Func
               /\ PostCalls[k].args[1] =
                      IF has_walls THEN user_dicts[k].f["userid"]
                      ELSE UserTalk(user_dicts[k].f["name"].s)
               /\ Tail(PostCalls[k].args) = Tail(PostCalls[1].args)
               /\ PostCalls[k].args[2] = message_title
               /\ ~has_walls => PostCalls[k].args[3] = message_body
               /\ SubSeq(PostCalls[k].args, 4, Len(PostCalls[k].args)) =
                      IF has_walls THEN << wiki.wikia_php, wiki.api_php, "session" >>
                      ELSE << wiki.api_php, "session" >>

\* The steps of the run that come after setup.
MenuSteps ==
    {"menu", "category", "lookup", "message", "parse", "dispatch", "complete"}

\* C3: the menu is reached, and so a post is made, only after a group lookup
\* for the account returned and showed a permissible group; a lookup that
\* fails leaves the run in setup.
C3_MenuOnlyAfterPrivilegeCheck == pc \in MenuSteps => privileged

\* C8: in the menu loop no QueryException or InputException of a query-layer
\* call leaves main(): such a failure is caught, and the run does not end by
\* it.
C8_MenuLoopCatchesQueryLayerFailures ==
    (pc = "crashed" /\ uncaught.at \in MenuSteps) => uncaught.exc \notin Caught

\* The first key of the body each operation reads for its result.
SuccessKey ==
    [ get_login_token |-> "query", get_csrf_token |-> "query",
      get_rate_limit_interval |-> "query", get_user_data |-> "query",
      has_message_walls |-> "userData", parse_wikitext |-> "parse",
      login |-> "login", post_message_wall_thread |-> "id",
      post_user_talk_message |-> "edit" ]

\* The body parsed and is an object without the operation's success key.
LacksSuccessShape(op, r) ==
    /\ IsOk(Transport(r))
    /\ r.body.t = "obj"
    /\ SuccessKey[op] \notin DOMAIN r.body.f

\* C11: for every operation, a call whose own request was answered by a
\* parsed body without the keys of the operation's success shape raises
\* InputException and returns no value. (It does not hold: the wall-thread
\* post without 'id' and the wall probe without 'userData' return False.)
C11_MissingShapeRaisesInputFailure ==
    (OwnRequestIssued /\ LacksSuccessShape(api.op, Last(api.resp)))
        => api.out = Raise("InputException")

\* Some element of groups equals some element of permissible.
Member_of(groups, permissible) ==
    \E i \in 1..Len(groups), k \in 1..Len(permissible) :
        groups[i] = permissible[k]

\* C12: has_rights(groups, permissible) is true exactly when some element of
\* groups equals some element of permissible. (It does not hold: the search
\* finds a permissible name inside a longer group name.)
C12_HasRightsIsMembership ==
    util.op = "has_rights" =>
        (util.out = Member_of(util.args[1], util.args[2]))

\* Where in the trace the group lookup of the setup phase returned: the call
\* of get_user_data with the account's name, the endpoint and the session.
GroupLookupsAt ==
    { k \in 2..Len(trace) :
          /\ trace[k].e = "return"
          /\ trace[k - 1].e = "call"
          /\ trace[k - 1].func = "get_user_data"
          /\ Len(trace[k - 1].args) = 3 }

\* The lookup returned and its first entry lists groups none of which is
\* threadmoderator or sysop.
ShowsNoMembership(out) ==
    /\ IsOk(out)
    /\ IsOk(my_usergroups(out.val))
    /\ ~Member_of(my_usergroups(out.val).val, required_usergroups)

\* C13: when the group lookup has returned and shown the account in neither
\* threadmoderator nor sysop, the run has ended: it logged the refusal and
\* returned, and nothing followed. (It does not hold for an account in a
\* group whose name holds a permissible name, which has_rights lets pass.)
C13_UnprivilegedRunEnds ==
    \A k \in GroupLookupsAt :
        ShowsNoMembership(trace[k].out) =>
            /\ pc = "returned"
            /\ Len(trace) = k + 1
            /\ trace[k + 1] = LogEvent("errorInsufficientPermissions", NoName)

\* The call read every page of every category and came to its sort.
CameToSort ==
    /\ cat.st = "done"
    /\ Len(cat.categories) > 0
    /\ cat.counter = Len(cat.categories)

\* No title of the list has a key less than its predecessor's.
NaturallyOrdered(l) ==
    \A i \in 1..(Len(l) - 1) :
        list_less(sort_key(l[i + 1]), sort_key(l[i])) = "ge"

\* C14: a call of get_category_members that has gathered its titles sorts
\* them by the natural comparator: the sort completes, and in the list
\* returned no title precedes one that the comparator puts before it. (It
\* does not hold: the sort raises TypeError on "1.5" and "2".)
C14_SortCompletesInNaturalOrder ==
    CameToSort => (IsOk(cat.out) /\ NaturallyOrdered(cat.out.val))

\* C15: the list get_category_members returns, for any categories, holds no
\* title twice and holds exactly the titles of all the pages read of all the
\* categories. (It does not hold: the titles of the pages after a first page
\* without members are lost, as in C4.)
C15_ResultIsUnionWithoutDuplicates ==
    (cat.st = "done" /\ IsOk(cat.out)) =>
        /\ \A i \in 1..Len(cat.out.val), j \in 1..Len(cat.out.val) :
               cat.out.val[i] = cat.out.val[j] => i = j
        /\ { cat.out.val[i] : i \in 1..Len(cat.out.val) } = TitlesRead(cat)

\* Where in the log of the call the requests are, the first request of a
\* category and the continuation requests apart, and the sleeps and pages.
FirstGetsAt ==
    { k \in 1..Len(cat.log) :
          cat.log[k].e = "get" /\ cat.log[k].cmcontinue = NoCursor }
ContinuedGetsAt ==
    { k \in 1..Len(cat.log) :
          cat.log[k].e = "get" /\ cat.log[k].cmcontinue # NoCursor }
CatSleepsAt == { k \in 1..Len(cat.log) : cat.log[k].e = "sleep" }
PagesAt == { k \in 1..Len(cat.log) : cat.log[k].e = "page" }

\* C16: in category expansion every continuation request comes right after
\* one sleep, which comes right after the page that carried the cursor, and
\* the first request of a category comes after no sleep; a call that has
\* read all the pages of its k categories has issued one request per page
\* and slept once per page but the first of each category: as many sleeps as
\* requests less k.
C16_OneRequestPerPageSleepBetweenPages ==
    /\ \A k \in ContinuedGetsAt :
           /\ k > 2
           /\ (k - 1) \in CatSleepsAt
           /\ (k - 2) \in PagesAt
    /\ \A k \in FirstGetsAt : k = 1 \/ (k - 1) \in PagesAt
    /\ \A k \in PagesAt : k > 1 /\ cat.log[k - 1].e = "get"
    /\ CameToSort =>
           /\ Cardinality(FirstGetsAt) = Len(cat.categories)
           /\ Cardinality(FirstGetsAt \cup ContinuedGetsAt) = Cardinality(PagesAt)
           /\ Cardinality(CatSleepsAt) =
                  Cardinality(PagesAt) - Len(cat.categories)

\* C16 witness: a call for two categories has read three pages and returned
\* its list: three requests, one sleep.
C16_TwoCategoriesThreePages ==
    /\ CameToSort
    /\ IsOk(cat.out)
    /\ Len(cat.categories) = 2
    /\ Cardinality(PagesAt) = 3
    /\ Cardinality(CatSleepsAt) = 1

\* The body parsed and is an object without the list of members: it lacks
\* "query", or "query" is an object that lacks "categorymembers".
LacksMembers(r) ==
    /\ IsOk(Transport(r))
    /\ r.body.t = "obj"
    /\ \/ "query" \notin DOMAIN r.body.f
       \/ /\ r.body.f["query"].t = "obj"
          /\ "categorymembers" \notin DOMAIN r.body.f["query"].f

\* C17: a call of get_category_members whose last request failed in
\* transport ends in QueryException, and one whose last response lacks the
\* list of members ends in InputException; either way it returns no list.
\* (It does not hold: a refused connection leaves the call as
\* ConnectionError, as in C9.)
C17_PageFailureRaises ==
    (cat.st = "done" /\ cat.resp # <<>>) =>
        /\ TransportFailed(cat.resp) => cat.out = Raise("QueryException")
        /\ LacksMembers(cat.resp) => cat.out = Raise("InputException")

\* C18: the step in which the expansion of the categories ends. With no
\* member (an empty list, QueryException or InputException) the run is back
\* at the menu, having logged that there are no members and nothing else but
\* log lines, with no recipient looked up; it goes on to the user lookup
\* only with members, and it crashes only by an exception other than the two.
C18_NoMembersBackToMenu ==
    [][ (pc = "category" /\ pc' # "category") =>
            /\ pc' \in {"menu", "lookup", "crashed"}
            /\ pc' = "lookup" => users' # <<>>
            /\ pc' = "crashed" => uncaught'.exc \notin Caught
            /\ pc' = "menu" =>
                   /\ trace' # <<>>
                   /\ \A k \in 1..Len(trace') : trace'[k].e = "log"
                   /\ trace'[Len(trace')] =
                          LogEvent("errorNoCategoryMembers", NoName)
                   /\ users' = <<>>
                   /\ user_dicts' = <<>> ]_vars

\* C18 witness: the expansion ended in QueryException and the run is back at
\* the menu, both lines logged.
C18_QueryFailureBackAtMenu ==
    /\ pc = "menu"
    /\ trace = << LogEvent("errorAPI", NoName),
                  LogEvent("errorNoCategoryMembers", NoName) >>

\* A well-formed paragraph body: text events, links (open, one text event
\* for the label, close) and tags other than p and a, in any order.
RECURSIVE IsParagraphBody(_)
IsParagraphBody(body) ==
    IF body = <<>> THEN TRUE
    ELSE IF Head(body).ev = "data" THEN IsParagraphBody(Tail(body))
    ELSE IF Head(body).tag \notin {"p", "a"} THEN IsParagraphBody(Tail(body))
    ELSE /\ Head(body).ev = "starttag"
         /\ Len(body) >= 3
         /\ body[2].ev = "data"
         /\ body[3] = EndTag("a")
         /\ IsParagraphBody(SubSeq(body, 4, Len(body)))

\* The nodes such a body stands for: a text node per text event outside a
\* link and a link node with its label per link, in order.
RECURSIVE NodesOf(_)
NodesOf(body) ==
    IF body = <<>> THEN <<>>
    ELSE IF Head(body).ev = "data"
    THEN << [kind |-> "text", text |-> Head(body).data] >> \o NodesOf(Tail(body))
    ELSE IF Head(body).tag # "a" THEN NodesOf(Tail(body))
    ELSE << [kind |-> "link", text |-> body[2].data] >>
         \o NodesOf(SubSeq(body, 4, Len(body)))

\* The events fed are one well-formed paragraph, opened and closed.
OneParagraphFed ==
    /\ Len(parser_events) >= 2
    /\ Head(parser_events) = StartTag("p", <<>>)
    /\ Last(parser_events) = EndTag("p")
    /\ IsParagraphBody(SubSeq(parser_events, 2, Len(parser_events) - 1))

\* What a node of the document is: a link when it has marks, plain text
\* otherwise, and the text it carries ("" when it has no text key).
KindAndText(node) ==
    [kind |-> IF "marks" \in DOMAIN node THEN "link" ELSE "text",
     text |-> IF "text" \in DOMAIN node THEN node.text ELSE ""]

\* C19: after a well-formed paragraph the document holds one paragraph whose
\* content is one node per text run and one per link, in the order of the
\* text events and link openings, each link with its label as text.
C19_ParagraphContentInOrder ==
    OneParagraphFed =>
        /\ parser_exc = "none"
        /\ Len(json_model(parser).content) = 1
        /\ json_model(parser).content[1].type = "paragraph"
        /\ LET content == json_model(parser).content[1].content
           IN  [k \in 1..Len(content) |-> KindAndText(content[k])]
                   = NodesOf(SubSeq(parser_events, 2, Len(parser_events) - 1))

\* C19 witness: the paragraph of two links and three text runs was fed and
\* the document holds its five nodes.
C19_FiveNodes ==
    /\ OneParagraphFed
    /\ Len(json_model(parser).content[1].content) = 5
    /\ [k \in 1..5 |-> KindAndText(json_model(parser).content[1].content[k]).kind]
           = << "text", "link", "text", "link", "text" >>


\* The paragraphs a sequence of events closes, each named by the rank of its
\* open tag among the paragraph open tags, in the order of the close tags: a
\* close tag closes the innermost paragraph still open, and one met with no
\* paragraph open closes nothing.
RECURSIVE ClosedParagraphs(_, _, _, _)
ClosedParagraphs(events, opened, open, closed) ==
    IF events = <<>> THEN closed
    ELSE LET e == Head(events)
         IN  IF e.ev = "starttag" /\ e.tag = "p"
             THEN ClosedParagraphs(Tail(events), opened + 1,
                                   Append(open, opened + 1), closed)
             ELSE IF e.ev = "endtag" /\ e.tag = "p" /\ open # <<>>
             THEN ClosedParagraphs(Tail(events), opened, Pop(open),
                                   Append(closed, Last(open)))
             ELSE ClosedParagraphs(Tail(events), opened, open, closed)

\* The rank of paragraph node i among the paragraph nodes the parser made.
ParagraphRank(p, i) ==
    Cardinality({ j \in 1..i : p.heap[j].type = "paragraph" })

\* C20: whatever events were fed, the document's top-level content is the
\* paragraphs whose close tag was met, in the order of the close tags, and
\* nothing else; a paragraph still open is not in it.
C20_DocumentIsClosedParagraphs ==
    /\ [k \in 1..Len(parser.content) |-> ParagraphRank(parser, parser.content[k])]
           = ClosedParagraphs(parser_events, 0, <<>>, <<>>)
    /\ \A k \in 1..Len(json_model(parser).content) :
           json_model(parser).content[k].type = "paragraph"
    /\ \A k \in 1..Len(parser.paragraphs_stack) :
           \A j \in 1..Len(parser.content) :
               parser.content[j] # parser.paragraphs_stack[k]

\* C20 witness: a paragraph was closed and another, opened, was not: the
\* document holds the closed one only.
C20_OpenParagraphLeftOut ==
    /\ parser_events # <<>>
    /\ parser_exc = "none"
    /\ parser.paragraphs_stack # <<>>
    /\ Len(json_model(parser).content) = 1


\* The step feeds one event of kind ev to the parser.
OneEventFed(ev) ==
    /\ Len(parser_events') = Len(parser_events) + 1
    /\ SubSeq(parser_events', 1, Len(parser_events)) = parser_events
    /\ Last(parser_events').ev = ev

\* Every node of the heap but node i is what it was.
OtherNodesKept(i) ==
    \A j \in 1..Len(parser.heap) : j # i => parser'.heap[j] = parser.heap[j]

\* C21: a text event raises nothing and leaves both stacks and the document's
\* list as they are. With a link open it sets the text of the innermost open
\* link to the event's text, whatever text the link had, and changes nothing
\* else; otherwise, with a paragraph open, it appends one new text node to
\* the innermost open paragraph and changes nothing else; otherwise the
\* parser is unchanged.
C21_TextEventChangesOneContainer ==
    [][ OneEventFed("data") =>
          LET data == Last(parser_events').data
              link == Last(parser.links_stack)
              paragraph == Last(parser.paragraphs_stack)
              n == Len(parser.heap) + 1
          IN  /\ parser_exc' = "none"
              /\ parser'.links_stack = parser.links_stack
              /\ parser'.paragraphs_stack = parser.paragraphs_stack
              /\ parser'.content = parser.content
              /\ IF parser.links_stack # <<>>
                 THEN /\ Len(parser'.heap) = Len(parser.heap)
                      /\ OtherNodesKept(link)
                      /\ parser'.heap[link].text = data
                      /\ \A k \in DOMAIN parser.heap[link] \ {"text"} :
                             parser'.heap[link][k] = parser.heap[link][k]
                      /\ DOMAIN parser'.heap[link]
                             = DOMAIN parser.heap[link] \cup {"text"}
                 ELSE IF parser.paragraphs_stack # <<>>
                 THEN /\ Len(parser'.heap) = n
                      /\ OtherNodesKept(paragraph)
                      /\ parser'.heap[n] = [type |-> "text", text |-> data]
                      /\ parser'.heap[paragraph] =
                             [parser.heap[paragraph] EXCEPT
                                  !.content = Append(@, n)]
                 ELSE parser' = parser ]_vars

\* C21 witness: two different text events met one open link, one after the
\* other, and the link's text is the second.
C21_SecondTextReplacedFirst ==
    /\ Len(parser_events) = 4
    /\ parser_events[3].ev = "data"
    /\ parser_events[4].ev = "data"
    /\ parser_events[3].data # parser_events[4].data
    /\ parser.links_stack # <<>>
    /\ parser.heap[Last(parser.links_stack)].text = parser_events[4].data


\* An event the parser has a branch for: text, or a tag p or a.
IsKnown(e) == e.ev = "data" \/ e.tag \in {"p", "a"}

\* C22: an open or close event of a tag other than p and a raises nothing
\* and leaves the parser (both stacks, the nodes, the document) as it is;
\* and the parser is at every moment where the same events without those
\* tags would have brought it, so text that follows goes where it would
\* have gone without them.
C22_UnknownTagsChangeNothing ==
    /\ [][ /\ OneEventFed("starttag") \/ OneEventFed("endtag")
           /\ ~IsKnown(Last(parser_events'))
           => parser' = parser /\ parser_exc' = "none" ]_vars
    /\ [](feed(NewParser, SelectSeq(parser_events, IsKnown))
              = [p |-> parser, exc |-> parser_exc])

\* C22 witness: inside a paragraph a tag b opened, text followed, and the
\* text is a node of the paragraph.
C22_TextAfterUnknownTag ==
    /\ Len(parser_events) = 3
    /\ parser_events[1] = StartTag("p", <<>>)
    /\ parser_events[2] = StartTag("b", <<>>)
    /\ parser_events[3].ev = "data"
    /\ parser_exc = "none"
    /\ Len(parser.heap[Last(parser.paragraphs_stack)].content) = 1


\* C23: the capability (message walls or talk pages) is found by one probe
\* per run: has_message_walls is called once however many batches the run
\* dispatches, so that every batch uses the value that one call returned.
\* (It does not hold: the call stands inside the menu loop and is made anew
\* for every batch.)
C23_OneProbePerRun == probes <= 1


\* The calls of parse_wikitext in the trace.
ParseCallsAt ==
    { k \in 1..Len(trace) : trace[k].e = "call" /\ trace[k].func = "parse_wikitext" }

\* The document built and serialized from what the parse call at k returned.
SerializedAt(k) ==
    dumps(json_model(feed(NewParser, html_events(trace[k + 1].out.val.s)).p))

\* C24: in a batch with message walls one parse request was made, it
\* returned before the first post call, and every post is a wall post that
\* carries the document built and serialized from what the parse request
\* returned; in a batch with talk pages no parse request was made and every
\* post is a talk-page edit that carries the body as typed.
C24_ParseOncePerBatchBeforePosts ==
    (InLoop \/ BatchOver) =>
        IF has_walls
        THEN /\ Cardinality(ParseCallsAt) = 1
             /\ \A k \in ParseCallsAt :
                    /\ IsOk(trace[k + 1].out)
                    /\ \A c \in CallsAt : k + 1 < c
                    /\ \A c \in PostsAt :
                           /\ trace[c].func = "post_message_wall_thread"
                           /\ trace[c].data.jsonModel = SerializedAt(k)
                           /\ trace[c].data.title = message_title
        ELSE /\ ParseCallsAt = {}
             /\ \A c \in PostsAt :
                    /\ trace[c].func = "post_user_talk_message"
                    /\ trace[c].data.text = message_body
                    /\ trace[c].data.sectiontitle = message_title

\* C24 witness: a batch with message walls ended after two posts.
C24_TwoWallPosts ==
    /\ pc = "complete"
    /\ has_walls
    /\ Cardinality(PostsAt) = 2


\* The sleeps of get_category_members, read off its log.
CatSleeps == { cat.log[k] : k \in CatSleepsAt }

\* C25: the pacing interval is set by one step, the one that takes the run
\* from setup to its first menu: it is what the rate-limit lookup returned,
\* or the default of 1.5 when the lookup raised QueryException or
\* InputException. No other step changes it, and every sleep of the run, in
\* the menu loop and inside get_category_members, lasts that long.
C25_IntervalFixedOnceAndUsedByEverySleep ==
    /\ [][ /\ interval' # interval => pc = "ratelimit" /\ pc' = "menu"
           /\ pc = "ratelimit" /\ pc' = "menu" =>
                LET out == trace'[2].out
                IN  /\ trace'[1].func = "get_rate_limit_interval"
                    /\ IsOk(out) => interval' = out.val
                    /\ ~IsOk(out) => out.exc \in Caught
                                     /\ interval' = DefaultInterval
           /\ pc' = "ratelimit" => pc = "groups" ]_vars
    /\ [](\A k \in SleepsAt : trace[k] = SleepEvent(interval))
    /\ [](\A sleep \in CatSleeps : sleep = SleepEvent(interval))

\* C25 witness: the lookup returned a value other than the default, and a
\* batch ended whose sleeps lasted that long.
C25_BatchPacedByLookup ==
    /\ pc = "complete"
    /\ interval # DefaultInterval
    /\ SleepsAt # {}


\* The names of the recipients handed to the dispatch loop.
RecipientNames == [k \in 1..Len(user_dicts) |-> user_dicts[k].f["name"]]

\* C26: in every batch, whether its names came from a category or were
\* typed, the recipients handed to the dispatch loop are of different names.
\* (It does not hold: the names typed are not compared with one another, and
\* the server's list is taken as it comes.)
C26_NoRecipientTwice ==
    pc \in {"message", "parse", "dispatch", "complete"} =>
        \A i, j \in 1..Len(user_dicts) :
            i # j => RecipientNames[i] # RecipientNames[j]


\* The server answered the recipient lookup with a body that carries a user
\* list and no error indicator.
UserListAnswered ==
    /\ api.op = "get_user_data"
    /\ IsOk(Transport(api.resp[1]))
    /\ IsOk(Path(Ok(api.resp[1].body), <<"query", "users">>))
    /\ Path(Ok(api.resp[1].body), <<"query", "users">>).val.t = "list"
    /\ "errors" \notin DOMAIN api.resp[1].body.f

\* The entry has a userid and is not marked missing.
IsValidUser(user) ==
    "userid" \in DOMAIN user.f /\ "missing" \notin DOMAIN user.f

\* C27: given a user list by the server, get_user_data returns the entries
\* of the list that have a userid and are not marked missing, in the list's
\* order, and raises InputException when there is no such entry (the list
\* empty or without a valid entry), never returning an empty list.
C27_ReturnsValidEntriesInOrder ==
    UserListAnswered =>
        LET listed == api.resp[1].body.f["query"].f["users"].l
            valid == SelectSeq(listed, IsValidUser)
        IN  api.out = IF valid = <<>> THEN Raise("InputException") ELSE Ok(valid)

\* C27 witness: the list held a valid entry and an entry without userid,
\* and the valid one alone was returned.
C27_InvalidEntryLeftOut ==
    /\ UserListAnswered
    /\ IsOk(api.out)
    /\ Len(api.out.val) = 1
    /\ Len(api.resp[1].body.f["query"].f["users"].l) = 2


\* A piece that is a run of letters and digits beginning with a letter.
IsName(piece) == piece \notin UrlMarks \cup {"80"}

\* A URL of a scheme and a host only, the host one label before fandom.com
\* or wikia.org. Spaces around it do not count, and neither does a "?" or a
\* "#" with nothing after it, which leave query and fragment empty.
IsBaseUrlOfFandomWiki(url) ==
    \E domain \in { <<"fandom", ".", "com">>, <<"wikia", ".", "org">> },
       tail \in { <<>>, <<"?">>, <<"#">>, <<"?", "#">> } :
        LET u == strip(url)
        IN  /\ Len(u) = 6 + Len(domain) + Len(tail)
            /\ IsName(u[1])
            /\ SubSeq(u, 2, 4) = <<":", "/", "/">>
            /\ u[5] \notin UrlMarks
            /\ u[6] = "."
            /\ From(u, 7) = domain \o tail

\* The URLs the claim names as rejected.
RejectedExamples ==
    { <<"https", ":", "/", "/", "eizen", ".", "fandom", ".", "com", "/">>,
      <<"https", ":", "/", "/", "eizen", ".", "wikia", ".", "com">>,
      <<"http", ":", "/", "/", "google", ".", "com">>,
      <<"fandom", ".", "com">>,
      <<"https", ":", "/", "/", "wikia", ".", "org">> }

SessionPosition ==
    [ login |-> 4, get_user_data |-> 4, get_rate_limit_interval |-> 2,
      get_category_members |-> 4, has_message_walls |-> 2,
      parse_wikitext |-> 3, post_message_wall_thread |-> 6,
      post_user_talk_message |-> 5 ]

\* session or requests.Session(): the session a call works with, a new one
\* when the call passes nothing for the parameter.
SessionUsed(call) ==
    IF Len(call.args) >= SessionPosition[call.func]
    THEN call.args[SessionPosition[call.func]]
    ELSE "requests.Session()"

\* C29: every call of the query layer in a run works with the run's one
\* session, the one that logged in. (It does not hold: the group lookup of
\* the setup phase passes the session where retrieve_groups is expected, and
\* get_user_data makes itself a new session.)
C29_EveryCallUsesTheSession ==
    \A k \in 1..Len(trace) :
        trace[k].e = "call" => SessionUsed(trace[k]) = "session"


\* The calls in the trace of operations other than login.
OtherCallsAt ==
    { k \in 1..Len(trace) : trace[k].e = "call" /\ trace[k].func # "login" }

\* C30: a login call that raises QueryException or InputException or returns
\* False leaves the run not logged in and at the credentials prompt; the run
\* is logged in only by a login call that returned True; and while it is not
\* logged in it is in setup, has made no call but login calls, and
\* get_category_members has not been called.
C30_NothingBeforeLogin ==
    /\ [][ pc = "signin" =>
             LET out == trace'[2].out
             IN  /\ trace'[1].func = "login"
                 /\ out \in { Raise("QueryException"), Raise("InputException"),
                             Ok(FALSE) }
                        => pc' = "signin" /\ ~is_logged_in'
                 /\ is_logged_in' => out = Ok(TRUE) ]_vars
    /\ [](~is_logged_in =>
              /\ pc \in {"url", "signin", "crashed"}
              /\ OtherCallsAt = {}
              /\ cat = CatIdle)

\* C30 witness: a login call returned False and the run is at the
\* credentials prompt again, not logged in.
C30_PromptedAgain ==
    /\ pc = "signin"
    /\ ~is_logged_in
    /\ Len(trace) = 3
    /\ trace[2] = ReturnEvent(Ok(FALSE))


\* C31: the dict wiki is written by one step only, the one that leaves the
\* URL prompt, from an input that passes the base-URL check, its three
\* entries being that input, the input with /api.php and the input with
\* /wikia.php; every other step, a failed login among them, leaves it as
\* it is.
C31_WikiWrittenOnce ==
    [][ wiki' # wiki =>
          /\ pc = "url" /\ pc' = "signin"
          /\ wiki = <<>>
          /\ IsBaseUrlOfFandomWiki(wiki'.base_url)
          /\ wiki'.api_php = <<wiki'.base_url, "/api.php">>
          /\ wiki'.wikia_php = <<wiki'.base_url, "/wikia.php">> ]_vars

\* C31 witness: a login failed and the run, its wiki set, is at the
\* credentials prompt again.
C31_WikiKeptAfterFailedLogin ==
    /\ pc = "signin"
    /\ wiki # <<>>
    /\ trace # <<>>
    /\ Last(trace) = LogEvent("errorLogin", NoName)


\* The log lines of the trace that name a recipient, in order, each with
\* what the post call before it returned or raised.
OutcomesAt ==
    { k \in 2..Len(trace) : trace[k].e = "log" /\ trace[k].name # NoName }

\* The line the claim gives an outcome.
OutcomeMessage(out) ==
    IF out = Ok(TRUE) THEN "successMessage"
    ELSE IF out = Ok(FALSE) THEN "errorMessageStd"
    ELSE "errorMessageAPI"

\* The outcome lines are one per recipient of the list, in its order, each
\* naming its recipient and telling what that recipient's post call did.
OneOutcomeEach ==
    /\ Cardinality(OutcomesAt) = Len(user_dicts)
    /\ \A k \in OutcomesAt :
           LET nth == Cardinality({ j \in OutcomesAt : j <= k })
           IN  /\ trace[k].name = user_dicts[nth].f["name"].s
               /\ trace[k - 1].e = "return"
               /\ trace[k].msg = OutcomeMessage(trace[k - 1].out)
               /\ IsOk(trace[k - 1].out) \/ trace[k - 1].out.exc \in Caught

\* C32: when a batch is over every recipient has one outcome line, which
\* names it: successMessage when its post call returned True, errorMessageStd
\* when it returned False, errorMessageAPI when it raised QueryException or
\* InputException. (It does not hold: a post call that raises anything else
\* leaves its recipient and those after it without a line.)
C32_OneOutcomeLinePerRecipient == BatchOver => OneOutcomeEach


\* C33: a paragraph that its close tag has put into the document is, with
\* all its nodes, left as it is by every later event. (It does not hold: a
\* link still open when its paragraph closes stays on links_stack, and the
\* next text event sets its text inside the paragraph already appended.)
C33_AppendedParagraphsNeverChange ==
    [][ \A k \in 1..Len(json_model(parser).content) :
            /\ k <= Len(json_model(parser').content)
            /\ json_model(parser').content[k] = json_model(parser).content[k] ]_vars


\* The value the last pair of attrs gives the key, "" when no pair has it.
AttrValue(attrs, key) ==
    IF \E i \in 1..Len(attrs) : attrs[i][1] = key
    THEN attrs[CHOOSE i \in 1..Len(attrs) :
                   /\ attrs[i][1] = key
                   /\ \A j \in (i + 1)..Len(attrs) : attrs[j][1] # key][2]
    ELSE ""

\* The step feeds an event of kind ev for the tag a.
LinkEventFed(ev) == OneEventFed(ev) /\ Last(parser_events').tag = "a"

\* C34: with a paragraph open, a link's open tag makes one new node, a text
\* node with one link mark whose attributes are the tag's href and title
\* and no other, puts it on top of links_stack and at the end of the
\* innermost open paragraph's content, and changes nothing else; with a link
\* open, a link's close tag takes the top off links_stack and changes
\* nothing else.
C34_LinkOpenAddsOneNodeCloseOnlyPops ==
    [][ /\ LinkEventFed("starttag") /\ parser.paragraphs_stack # <<>> =>
             LET n == Len(parser.heap) + 1
                 paragraph == Last(parser.paragraphs_stack)
                 attrs == Last(parser_events').attrs
                 kept == parser'.heap[n].marks[1].attrs
             IN  /\ parser_exc' = "none"
                 /\ Len(parser'.heap) = n
                 /\ OtherNodesKept(paragraph)
                 /\ parser'.links_stack = Append(parser.links_stack, n)
                 /\ parser'.paragraphs_stack = parser.paragraphs_stack
                 /\ parser'.content = parser.content
                 /\ parser'.heap[paragraph] =
                        [parser.heap[paragraph] EXCEPT !.content = Append(@, n)]
                 /\ DOMAIN parser'.heap[n] = {"type", "marks"}
                 /\ parser'.heap[n].type = "text"
                 /\ Len(parser'.heap[n].marks) = 1
                 /\ parser'.heap[n].marks[1].type = "link"
                 /\ DOMAIN kept =
                        { key \in {"href", "title"} :
                              \E i \in 1..Len(attrs) : attrs[i][1] = key }
                 /\ \A key \in DOMAIN kept : kept[key] = AttrValue(attrs, key)
        /\ LinkEventFed("endtag") /\ parser.links_stack # <<>> =>
             /\ parser_exc' = "none"
             /\ parser'.links_stack = Pop(parser.links_stack)
             /\ parser'.heap = parser.heap
             /\ parser'.paragraphs_stack = parser.paragraphs_stack
             /\ parser'.content = parser.content ]_vars

\* C34 witness: in a paragraph a link with href, title and class opened and
\* closed: the paragraph holds its node and links_stack is empty again.
C34_LinkOpenedAndClosed ==
    /\ Len(parser_events) = 3
    /\ parser_events[2].ev = "starttag"
    /\ parser_events[2].tag = "a"
    /\ Len(parser_events[2].attrs) = 3
    /\ parser_events[3] = EndTag("a")
    /\ parser.links_stack = <<>>
    /\ Len(parser.paragraphs_stack) = 1
    /\ Len(parser.heap[Last(parser.paragraphs_stack)].content) = 1


\* The page requests of get_category_members, read off its log, and those
\* of them that carry no cursor.
CatGetsAt == { k \in 1..Len(cat.log) : cat.log[k].e = "get" }

CatFirstGetsAt == { k \in CatGetsAt : cat.log[k].cmcontinue = NoCursor }

\* The names get_category_members was called with.
CatInputNames ==
    IF cat.input.t = "str" THEN << cat.input.s >>
    ELSE [i \in 1..Len(cat.input.l) |-> cat.input.l[i].s]

BeginsWithPrefix(name) ==
    /\ Len(name) >= Len(Prefix)
    /\ \A i \in 1..Len(Prefix) : name[i] = Prefix[i]

\* The title a category is queried under.
CategoryTitle(name) == IF BeginsWithPrefix(name) THEN name ELSE Prefix \o name

\* The step issues a page request after the answer to the one before.
NextPageRequested ==
    /\ cat.st = "page"
    /\ cat'.st = "page"
    /\ Len(cat'.log) > Len(cat.log)

\* C35: the n-th request without a cursor is for the n-th category of the
\* input, every request carries the title of the category it belongs to,
\* which is the input name, with "Category:" put before it when it does
\* not begin with it; a request that follows a response with a cursor
\* carries that cursor under the title of the request before, and one that
\* follows a response without a cursor carries none and opens the next
\* category.
C35_CategoriesInOrderCursorsCarriedOn ==
    /\ [](\A k \in CatGetsAt :
              LET n == Cardinality({ j \in CatFirstGetsAt : j <= k })
              IN  /\ n \in 1..Len(CatInputNames)
                  /\ cat.log[k].cmtitle = CategoryTitle(CatInputNames[n]))
    /\ [][ NextPageRequested =>
             LET body == cat'.resp.body
                 request == Last(cat'.log)
             IN  /\ request.e = "get"
                 /\ CatGetsAt' = CatGetsAt \cup { Len(cat'.log) }
                 /\ IF "query-continue" \in DOMAIN body.f
                    THEN /\ request.cmcontinue =
                              body.f["query-continue"].f["categorymembers"].f["cmcontinue"]
                         /\ request.cmcontinue # NoCursor
                         /\ request.cmtitle = cat.config.cmtitle
                         /\ cat.log[Len(cat.log)] = GetEvent(cat.config)
                    ELSE /\ request.cmcontinue = NoCursor
                         /\ Cardinality(CatFirstGetsAt') =
                                Cardinality(CatFirstGetsAt) + 1 ]_vars

\* C35 witness: called with "U" and "Category:U", the call asked for the
\* first page of the first, went on with a cursor, and opened the second.
C35_SecondCategoryOpenedAfterContinuation ==
    /\ cat.input = Names(<< <<"U">>, Prefix \o <<"U">> >>)
    /\ Cardinality(CatGetsAt) = 3
    /\ Cardinality(CatFirstGetsAt) = 2
    /\ cat.log[Len(cat.log)].e = "get"
    /\ cat.log[Len(cat.log)].cmcontinue = NoCursor


\* The step is a recipient lookup that raised: what it raised, "none" when
\* the step is no lookup or the lookup returned.
LookupRaised ==
    IF /\ pc = "lookup"
       /\ Len(trace') >= Len(trace) + 2
       /\ trace'[Len(trace) + 1].e = "call"
       /\ trace'[Len(trace) + 2].e = "return"
    THEN IF IsOk(trace'[Len(trace) + 2].out) THEN "none"
         ELSE trace'[Len(trace) + 2].out.exc
    ELSE "none"

\* C36: a recipient lookup that raises QueryException or InputException is
\* followed, in the same step, by one log line that names the failure and
\* one sleep of the pacing interval, and the run is at the menu again with
\* the iteration's locals cleared: nothing was typed as a message, no probe
\* was made, and the iteration's events hold no probe, parse or post call.
C36_FailedLookupBackToMenu ==
    [][ (LookupRaised \in {"QueryException", "InputException"}) =>
          /\ trace'[Len(trace) + 1].func = "get_user_data"
          /\ SubSeq(trace', 1, Len(trace)) = trace
          /\ SubSeq(trace', Len(trace) + 3, Len(trace')) =
                 << LogEvent(IF LookupRaised = "QueryException" THEN "errorAPI"
                             ELSE "errorNoValidUsernames", NoName),
                    SleepEvent(interval) >>
          /\ pc' = "menu"
          /\ uncaught' = uncaught
          /\ probes' = probes
          /\ message_title' = ""
          /\ message_body' = ""
          /\ user_dicts' = <<>>
          /\ params' = <<>>
          /\ \A k \in 1..Len(trace') :
                 /\ trace'[k].e \notin {"post", "token"}
                 /\ trace'[k].e = "call" =>
                        trace'[k].func \in {"get_category_members", "get_user_data"} ]_vars

\* C36 witness: the lookup raised InputException and the run is at the menu
\* with the log line and the sleep behind it.
C36_NoValidUsernamesAtMenu ==
    /\ pc = "menu"
    /\ Len(trace) >= 4
    /\ trace[Len(trace) - 3].e = "call"
    /\ trace[Len(trace) - 3].func = "get_user_data"
    /\ trace[Len(trace) - 2] = ReturnEvent(Raise("InputException"))
    /\ trace[Len(trace) - 1] = LogEvent("errorNoValidUsernames", NoName)
    /\ trace[Len(trace)] = SleepEvent(interval)


\* A request of the dispatch loop was not answered: the connection failed.
RequestUnanswered ==
    /\ pc = "crashed"
    /\ uncaught.at = "dispatch"
    /\ uncaught.exc = "ConnectionError"

\* C37: when every request is answered, and the server answers with a
\* cursor at most MaxContinues times in a row, a category expansion that is
\* running comes to its end, by a return or by an exception, and a dispatch
\* loop that is running comes to its end and the run is at the menu again.
\* (It does not hold: an answer the post operation fails on with an
\* exception that is neither QueryException nor InputException ends the run
\* inside the loop.)
C37_ExpansionEndsAndDispatchReturnsToMenu ==
    /\ (pc = "category") ~> (pc # "category")
    /\ (pc = "dispatch") ~> (pc = "menu" \/ RequestUnanswered)

=============================================================================
